---- MODULE Spec2Model ----
(***************************************************************************)
(* Local statevector simulation kernels of DistributedAlgorithmTesting:    *)
(*   - the bit-index algebra of utilities.h,                               *)
(*   - the single-/multi-control update strategies of local_controls.c     *)
(*     (sequential and OpenMP variants),                                   *)
(*   - the Hadamard / controlled-phase / swap kernels and the two QFT      *)
(*     compositions of local_qft.c.                                        *)
(*                                                                         *)
(* Arithmetic is exact.  The real arrays of local_controls.c hold          *)
(* rationals <<num, den>>; the complex statevector of local_qft.c holds    *)
(* elements of Z[w], w = exp(2 pi i / 2^N), together with the number of    *)
(* 1/sqrt(2) factors applied so far.  Floating-point rounding is not       *)
(* modelled.  Indices stay far below 2^64, so the unsigned wrap of the     *)
(* C type never happens within the bounds.                                 *)
(***************************************************************************)
EXTENDS Integers, Sequences, FiniteSets, TLC

\* ------------------------------------------------------------------ bounds

\* largest register of the sequential controlled-update and gate runs
MaxQubits == 3
\* an input array differs from the all-ones array in at most this many places
MaxPerturbed == 1
\* largest register of the OpenMP runs (one thread per loop iteration)
OmpQubits == 2
\* largest register of the QFT runs
QftQubits == 4
\* largest register of the calls of the index algebra on its own
BitsQubits == 4
\* most write...ToAssoc calls between an open and its close
MaxWrites == 2
\* most openAssocAppend ... closeAssocAppend cycles on one file
MaxAppends == 2
\* largest numQubits passed to s_benchmarking and m_benchmarking
BenchQubits == 3
\* largest numReps passed to s_benchmarking and m_benchmarking
MaxReps == 2
\* largest RegSize passed to getSortedRandomSubReg
MaxReg == 4
\* RAND_MAX: rand() yields 0..RandMax
RandMax == 4

\* ------------------------------------------------------- bit twiddling

pow2(p) == 2^p

\* num >> i and num << i of the C source
ShiftR(num, i) == num \div pow2(i)
ShiftL(num, i) == num * pow2(i)

RECURSIVE BitXor(_, _)
BitXor(a, b) ==
    IF a = 0 /\ b = 0 THEN 0
    ELSE (((a % 2) + (b % 2)) % 2) + 2 * BitXor(a \div 2, b \div 2)

RECURSIVE BitAnd(_, _)
BitAnd(a, b) ==
    IF a = 0 \/ b = 0 THEN 0
    ELSE ((a % 2) * (b % 2)) + 2 * BitAnd(a \div 2, b \div 2)

RECURSIVE BitOr(_, _)
BitOr(a, b) ==
    IF a = 0 /\ b = 0 THEN 0
    ELSE (IF a % 2 = 1 \/ b % 2 = 1 THEN 1 ELSE 0) + 2 * BitOr(a \div 2, b \div 2)

flipBit(num, i) == BitXor(num, pow2(i))

getBit(num, i) == BitAnd(ShiftR(num, i), 1)

\* the high part is not moved up
insertZeroBit_noshift(num, i) ==
    LET l == ShiftL(ShiftR(num, i), i)
        r == num - l
    IN  BitXor(l, r)

\* utilities.h: subtract / xor form
insertZeroBit_sub(num, i) ==
    LET l == ShiftL(ShiftR(num, i), i)
        r == num - l
    IN  BitXor(ShiftL(l, 1), r)

\* the bits below the inserted zero are dropped
insertZeroBit_nolow(num, i) == ShiftL(ShiftR(num, i), i + 1)

\* the utilities bundled with mmaformatter.h: shift / mask / or form
insertZeroBit(num, i) ==
    LET l == ShiftL(ShiftR(num, i), i + 1)
        r == BitAnd(num, pow2(i) - 1)
    IN  BitOr(l, r)

RECURSIVE getBitMask_loop(_, _, _)
getBitMask_loop(bits, b, mask) ==
    IF b > Len(bits) THEN mask
    ELSE getBitMask_loop(bits, b + 1, flipBit(mask, bits[b]))

getBitMask(bits) == getBitMask_loop(bits, 1, 0)

truncateBits(num, numLowerBits) == BitAnd(num, pow2(numLowerBits) - 1)

bitsAreAllOne(i, mask) == IF BitAnd(mask, i) = mask THEN 1 ELSE 0

getZeroBitFromAffix(prefix, suffix, i) == BitOr(ShiftL(prefix, i + 1), suffix)

\* the infix is moved up one place too few
getZeroBitsFromAffixes_low(prefix, infix, suffix, t2, t1) ==
    BitOr(BitOr(ShiftL(prefix, t2 + 1), ShiftL(infix, t1)), suffix)

getZeroBitsFromAffixes(prefix, infix, suffix, t2, t1) ==
    BitOr(BitOr(ShiftL(prefix, t2 + 1), ShiftL(infix, t1 + 1)), suffix)

\* ------------------------------------------- exact reals: <<num, den>>

RECURSIVE Gcd(_, _)
Gcd(a, b) == IF b = 0 THEN a ELSE Gcd(b, a % b)

Abs(x) == IF x < 0 THEN -x ELSE x

QNorm(q) ==
    LET g == Gcd(Abs(q[1]), q[2])
    IN  IF q[1] = 0 THEN <<0, 1>> ELSE <<q[1] \div g, q[2] \div g>>

QInt(k) == <<k, 1>>
QAdd(x, y) == QNorm(<<x[1] * y[2] + y[1] * x[2], x[2] * y[2]>>)
QSub(x, y) == QNorm(<<x[1] * y[2] - y[1] * x[2], x[2] * y[2]>>)
QMul(x, y) == QNorm(<<x[1] * y[1], x[2] * y[2]>>)

\* #define f(amp) (1.5 * pow(amp - .1, 2))
f(x) ==
    LET d == QSub(x, <<1, 10>>)
    IN  QMul(<<3, 2>>, QMul(d, d))

\* (1-b)*amps[i] + b*f(amps[i]) of the B methods
blend(b, x) == QAdd(QMul(QInt(1 - b), x), QMul(QInt(b), f(x)))

\* ------------------------------------------------- array access, traced

\* a run of one kernel: the array, the accesses made so far (in program
\* order, each tagged with the loop iteration that made it), and whether
\* any access fell outside the array
NewRun(a) == [amps |-> a, log |-> <<>>, oob |-> FALSE]

InRange(a, idx) == idx \in DOMAIN a

\* a read outside the array is recorded in the run (oob); the value it
\* yields is then not used by any property
Load(a, idx) == IF InRange(a, idx) THEN a[idx] ELSE a[0]

Rd(st, idx, it) ==
    [st EXCEPT !.log = Append(@, [op |-> "r", idx |-> idx, it |-> it]),
               !.oob = @ \/ ~InRange(st.amps, idx)]

Wr(st, idx, val, it) ==
    [amps |-> IF InRange(st.amps, idx) THEN [st.amps EXCEPT ![idx] = val]
              ELSE st.amps,
     log  |-> Append(st.log, [op |-> "w", idx |-> idx, it |-> it]),
     oob  |-> st.oob \/ ~InRange(st.amps, idx)]

\* ------------------------------------- controlled-update loop bodies
\* One record per loop iteration: whether the body touches the array at
\* all, the index it reads, the index it writes, and how the value written
\* is formed from the value read (f, or the blend of the B methods).

s_methodA_body(numAmps, c, i) ==
    [on |-> getBit(i, c) = 1, src |-> i, dst |-> i, blend |-> FALSE, b |-> 1]

s_methodB_body(numAmps, c, i) ==
    [on |-> TRUE, src |-> i, dst |-> i, blend |-> TRUE, b |-> getBit(i, c)]

\* collapse(2) over j < jNum, i < iNum: iteration it = j*iNum + i;
\* amps[j1i] = f(amps[i])
s_methodC_body(numAmps, c, it) ==
    LET iNum == pow2(c)
        j    == it \div iNum
        i    == it % iNum
        j0i  == getZeroBitFromAffix(j, i, c)
        j1i  == flipBit(j0i, c)
    IN  [on |-> TRUE, src |-> i, dst |-> j1i, blend |-> FALSE, b |-> 1]

\* the original stride arithmetic of local_controls.c
s_methodC_orig_body(numAmps, c, it) ==
    LET l2 == pow2(c)
        l3 == ShiftL(l2, 1)
        l  == it \div l2
        m  == it % l2
        i  == m + l * l3 + l2
    IN  [on |-> TRUE, src |-> i, dst |-> i, blend |-> FALSE, b |-> 1]

s_methodD_body(numAmps, c, m) ==
    LET i == flipBit(insertZeroBit(m, c), c)
    IN  [on |-> TRUE, src |-> i, dst |-> i, blend |-> FALSE, b |-> 1]

m_methodA_body(numAmps, ctrls, i) ==
    LET cMask == getBitMask(ctrls)
    IN  [on |-> bitsAreAllOne(i, cMask) = 1, src |-> i, dst |-> i,
         blend |-> FALSE, b |-> 1]

m_methodB_body(numAmps, ctrls, i) ==
    LET cMask == getBitMask(ctrls)
    IN  [on |-> TRUE, src |-> i, dst |-> i, blend |-> TRUE,
         b |-> bitsAreAllOne(i, cMask)]

\* the controls are taken in increasing order whatever their order in ctrls
RECURSIVE m_methodD_index_sorted(_, _, _)
m_methodD_index_sorted(ctrls, c, j) ==
    IF c > Len(ctrls) THEN j
    ELSE LET all == {ctrls[n] : n \in 1..Len(ctrls)}
             p   == CHOOSE q \in all : Cardinality({r \in all : r < q}) = c - 1
         IN  m_methodD_index_sorted(ctrls, c + 1, flipBit(insertZeroBit(j, p), p))

RECURSIVE m_methodD_index(_, _, _)
m_methodD_index(ctrls, c, j) ==
    IF c > Len(ctrls) THEN j
    ELSE m_methodD_index(ctrls, c + 1,
                         flipBit(insertZeroBit(j, ctrls[c]), ctrls[c]))

\* a body that skips the last control
m_methodD_body_skip(numAmps, ctrls, l) ==
    LET j == m_methodD_index(SubSeq(ctrls, 1, Len(ctrls) - 1), 1, l)
    IN  [on |-> TRUE, src |-> j, dst |-> j, blend |-> FALSE, b |-> 1]

m_methodD_body(numAmps, ctrls, l) ==
    LET j == m_methodD_index(ctrls, 1, l)
    IN  [on |-> TRUE, src |-> j, dst |-> j, blend |-> FALSE, b |-> 1]

\* the method tables s_methods[] and m_methods[]
MethodsS == {"sA", "sB", "sC", "sD"}
MethodsM == {"mA", "mB", "mD"}

\* every loop runs over numAmps
NumIters_full(meth, numAmps, ctrls) == numAmps

\* loop trip count of each method
NumIters(meth, numAmps, ctrls) ==
    CASE meth \in {"sA", "sB", "mA", "mB"} -> numAmps
      [] meth \in {"sC", "sC_orig"} -> ShiftR(numAmps, ctrls[1] + 1) * pow2(ctrls[1])
      [] meth = "sD" -> ShiftR(numAmps, 1)
      [] meth = "mD" -> ShiftR(numAmps, Len(ctrls))

Body(meth, numAmps, ctrls, it) ==
    CASE meth = "sA" -> s_methodA_body(numAmps, ctrls[1], it)
      [] meth = "sB" -> s_methodB_body(numAmps, ctrls[1], it)
      [] meth = "sC" -> s_methodC_body(numAmps, ctrls[1], it)
      [] meth = "sC_orig" -> s_methodC_orig_body(numAmps, ctrls[1], it)
      [] meth = "sD" -> s_methodD_body(numAmps, ctrls[1], it)
      [] meth = "mA" -> m_methodA_body(numAmps, ctrls, it)
      [] meth = "mB" -> m_methodB_body(numAmps, ctrls, it)
      [] meth = "mD" -> m_methodD_body(numAmps, ctrls, it)

\* the value an iteration writes, from the value it read
BodyVal(d, v) == IF d.blend THEN blend(d.b, v) ELSE f(v)

\* one iteration, run to completion: read, compute, write
BodyStep(st, d, it) ==
    IF ~d.on THEN st
    ELSE LET v == Load(st.amps, d.src)
         IN  Wr(Rd(st, d.src, it), d.dst, BodyVal(d, v), it)

\* the sequential loop: iterations in increasing order
RECURSIVE RunLoop(_, _, _, _, _)
RunLoop(st, meth, numAmps, ctrls, it) ==
    IF it >= NumIters(meth, numAmps, ctrls) THEN st
    ELSE RunLoop(BodyStep(st, Body(meth, numAmps, ctrls, it), it),
                 meth, numAmps, ctrls, it + 1)

\* a call of s_methods[m] / m_methods[m] on the array amps
RunMethod(meth, amps, numAmps, ctrls) ==
    RunLoop(NewRun(amps), meth, numAmps, ctrls, 0)

\* ------------------------------------------------ exact complex numbers
\* An amplitude is v / 2^e with v in Z[w], w = exp(2 pi i / M), M a power
\* of two >= 8 so that sqrt(2) = w^(M/8) + w^(-M/8) lies in the ring.  v is
\* the sequence of its M/2 integer coordinates over 1, w, ..., w^(M/2-1)
\* (w^(M/2) = -1).  Angles are integers counting units of 2 pi / M.

RingDim(N) == IF N < 3 THEN 4 ELSE pow2(N - 1)
PhaseMod(N) == 2 * RingDim(N)

\* the angle 2 pi / 2^m in units of 2 pi / M
AngleOf(m, N) == PhaseMod(N) \div pow2(m)

VAdd(x, y) == [j \in 1..Len(x) |-> x[j] + y[j]]
VNeg(x) == [j \in 1..Len(x) |-> 0 - x[j]]
VScale(x, c) == [j \in 1..Len(x) |-> c * x[j]]

\* w^k * x
VMulW(x, k) ==
    LET D  == Len(x)
        kk == k % (2 * D)
    IN  [j \in 1..D |->
            LET s   == (j - 1) - kk
                q   == IF s >= 0 THEN 0 ELSE IF s >= 0 - D THEN 1 ELSE 2
                idx == s + q * D
            IN  IF q = 1 THEN 0 - x[idx + 1] ELSE x[idx + 1]]

\* sqrt(2) * x
VMulSqrt2(x) ==
    LET D == Len(x)
    IN  VAdd(VMulW(x, D \div 4), VMulW(x, 2 * D - (D \div 4)))

AllEven(x) == \A j \in 1..Len(x) : x[j] % 2 = 0

RECURSIVE ANorm(_)
ANorm(z) ==
    IF z.e > 0 /\ AllEven(z.v)
    THEN ANorm([v |-> [j \in 1..Len(z.v) |-> z.v[j] \div 2], e |-> z.e - 1])
    ELSE z

AInt(k, N) == [v |-> [j \in 1..RingDim(N) |-> IF j = 1 THEN k ELSE 0], e |-> 0]

AIsZero(z) == \A j \in 1..Len(z.v) : z.v[j] = 0

AAdd(x, y) ==
    LET e == IF x.e > y.e THEN x.e ELSE y.e
    IN  ANorm([v |-> VAdd(VScale(x.v, pow2(e - x.e)), VScale(y.v, pow2(e - y.e))),
               e |-> e])

ASub(x, y) == AAdd(x, [v |-> VNeg(y.v), e |-> y.e])

\* amp fac = expI(theta); z * fac
AMulExpI(z, theta) == [v |-> VMulW(z.v, theta), e |-> z.e]

\* a factor of 1/2 in place of 1/sqrt(2)
AMulFac_half(z) == ANorm([v |-> z.v, e |-> z.e + 1])

\* double fac = 1/sqrt(2); fac * z
AMulFac(z) == ANorm([v |-> VMulSqrt2(z.v), e |-> z.e + 1])

\* --------------------------------------------------------- gate kernels

\* a Hadamard that writes the sum to both halves of the pair
applyHadamard_body_same(st, t, N, it) ==
    LET kNum == pow2(t)
        jGap == pow2(t + 1)
        off  == pow2(t)
        j    == it \div kNum
        k    == it % kNum
        j0k  == j * jGap + k
        j1k  == j0k + off
        a1   == Load(st.amps, j0k)
        a2   == Load(st.amps, j1k)
        s1   == Rd(Rd(st, j0k, it), j1k, it)
        s2   == Wr(s1, j0k, AAdd(AMulFac(a1), AMulFac(a2)), it)
    IN  Wr(s2, j1k, AAdd(AMulFac(a1), AMulFac(a2)), it)

\* iteration it = j*kNum + k of the loop nest
applyHadamard_body(st, t, N, it) ==
    LET kNum == pow2(t)
        jGap == pow2(t + 1)
        off  == pow2(t)
        j    == it \div kNum
        k    == it % kNum
        j0k  == j * jGap + k
        j1k  == j0k + off
        a1   == Load(st.amps, j0k)
        a2   == Load(st.amps, j1k)
        s1   == Rd(Rd(st, j0k, it), j1k, it)
        s2   == Wr(s1, j0k, AAdd(AMulFac(a1), AMulFac(a2)), it)
    IN  Wr(s2, j1k, ASub(AMulFac(a1), AMulFac(a2)), it)

\* the loop nest from iteration it on; the test on nxt.oob is always true
\* and only makes the run so far a value before the next iteration starts
RECURSIVE applyHadamard_loop(_, _, _, _)
applyHadamard_loop(st, t, N, it) ==
    IF it >= pow2(N - (t + 1)) * pow2(t) THEN st
    ELSE LET nxt == applyHadamard_body(st, t, N, it)
         IN  IF nxt.oob \in BOOLEAN
             THEN applyHadamard_loop(nxt, t, N, it + 1)
             ELSE nxt

applyHadamard(psi, t, N) == applyHadamard_loop(NewRun(psi), t, N, 0)

\* a phase applied where only the higher of the two bits is set
applyControlledPhase_body_one(st, c, t, theta, N, it) ==
    LET t1   == IF t < c THEN t ELSE c
        t2   == IF c > t THEN c ELSE t
        kNum == pow2(t2 - (t1 + 1))
        lNum == pow2(t1)
        jGap == pow2(t2 + 1)
        kGap == pow2(t1 + 1)
        off  == pow2(t2)
        j    == it \div (kNum * lNum)
        k    == (it \div lNum) % kNum
        l    == it % lNum
        j0k0l == j * jGap + k * kGap + l
        j1k1l == j0k0l + off
    IN  Wr(Rd(st, j1k1l, it), j1k1l, AMulExpI(Load(st.amps, j1k1l), theta), it)

\* a swap that exchanges the two indices whose bits are equal
applySwap_body_equal(st, q1, q2, N, it) ==
    LET t1   == IF q1 > q2 THEN q2 ELSE q1
        t2   == IF q1 > q2 THEN q1 ELSE q2
        kNum == pow2(t2 - (t1 + 1))
        lNum == pow2(t1)
        jGap == pow2(t2 + 1)
        kGap == pow2(t1 + 1)
        j    == it \div (kNum * lNum)
        k    == (it \div lNum) % kNum
        l    == it % lNum
        j0k0l == j * jGap + k * kGap + l
        j1k1l == j0k0l + pow2(t1) + pow2(t2)
        tmp  == Load(st.amps, j0k0l)
        s1   == Rd(st, j0k0l, it)
        s2   == Wr(Rd(s1, j1k1l, it), j0k0l, Load(st.amps, j1k1l), it)
    IN  Wr(s2, j1k1l, tmp, it)

\* iteration it = (j*kNum + k)*lNum + l of the loop nest
applyControlledPhase_body(st, c, t, theta, N, it) ==
    LET t1   == IF t < c THEN t ELSE c
        t2   == IF c > t THEN c ELSE t
        kNum == pow2(t2 - (t1 + 1))
        lNum == pow2(t1)
        jGap == pow2(t2 + 1)
        kGap == pow2(t1 + 1)
        off  == pow2(t1) + pow2(t2)
        j    == it \div (kNum * lNum)
        k    == (it \div lNum) % kNum
        l    == it % lNum
        j0k0l == j * jGap + k * kGap + l
        j1k1l == j0k0l + off
    IN  Wr(Rd(st, j1k1l, it), j1k1l, AMulExpI(Load(st.amps, j1k1l), theta), it)

RECURSIVE applyControlledPhase_loop(_, _, _, _, _, _)
applyControlledPhase_loop(st, c, t, theta, N, it) ==
    LET t1 == IF t < c THEN t ELSE c
        t2 == IF c > t THEN c ELSE t
    IN  IF it >= pow2(N - (t2 + 1)) * pow2(t2 - (t1 + 1)) * pow2(t1) THEN st
        ELSE LET nxt == applyControlledPhase_body(st, c, t, theta, N, it)
             IN  IF nxt.oob \in BOOLEAN
                 THEN applyControlledPhase_loop(nxt, c, t, theta, N, it + 1)
                 ELSE nxt

applyControlledPhase(psi, c, t, theta, N) ==
    applyControlledPhase_loop(NewRun(psi), c, t, theta, N, 0)

\* a swap that forgets the temporary
applySwap_body_notmp(st, q1, q2, N, it) ==
    LET t1   == IF q1 > q2 THEN q2 ELSE q1
        t2   == IF q1 > q2 THEN q1 ELSE q2
        kNum == pow2(t2 - (t1 + 1))
        lNum == pow2(t1)
        jGap == pow2(t2 + 1)
        kGap == pow2(t1 + 1)
        off1 == pow2(t1)
        off2 == pow2(t2)
        j    == it \div (kNum * lNum)
        k    == (it \div lNum) % kNum
        l    == it % lNum
        j0k0l == j * jGap + k * kGap + l
        j0k1l == j0k0l + off1
        j1k0l == j0k0l + off2
        s1   == Wr(Rd(st, j1k0l, it), j0k1l, Load(st.amps, j1k0l), it)
    IN  Wr(Rd(s1, j0k1l, it), j1k0l, Load(s1.amps, j0k1l), it)

\* iteration it = (j*kNum + k)*lNum + l of the loop nest
applySwap_body(st, q1, q2, N, it) ==
    LET t1   == IF q1 > q2 THEN q2 ELSE q1
        t2   == IF q1 > q2 THEN q1 ELSE q2
        kNum == pow2(t2 - (t1 + 1))
        lNum == pow2(t1)
        jGap == pow2(t2 + 1)
        kGap == pow2(t1 + 1)
        off1 == pow2(t1)
        off2 == pow2(t2)
        j    == it \div (kNum * lNum)
        k    == (it \div lNum) % kNum
        l    == it % lNum
        j0k0l == j * jGap + k * kGap + l
        j0k1l == j0k0l + off1
        j1k0l == j0k0l + off2
        tmp  == Load(st.amps, j0k1l)
        s1   == Rd(st, j0k1l, it)
        s2   == Wr(Rd(s1, j1k0l, it), j0k1l, Load(st.amps, j1k0l), it)
    IN  Wr(s2, j1k0l, tmp, it)

RECURSIVE applySwap_loop(_, _, _, _, _)
applySwap_loop(st, q1, q2, N, it) ==
    LET t1 == IF q1 > q2 THEN q2 ELSE q1
        t2 == IF q1 > q2 THEN q1 ELSE q2
    IN  IF it >= pow2(N - (t2 + 1)) * pow2(t2 - (t1 + 1)) * pow2(t1) THEN st
        ELSE LET nxt == applySwap_body(st, q1, q2, N, it)
             IN  IF nxt.oob \in BOOLEAN
                 THEN applySwap_loop(nxt, q1, q2, N, it + 1)
                 ELSE nxt

applySwap(psi, q1, q2, N) == applySwap_loop(NewRun(psi), q1, q2, N, 0)

\* a merged phase whose mask keeps bit tMax as well
applyMergedPhases_body_mask(st, tMax, N, it) ==
    LET kNum  == pow2(tMax)
        jGap  == pow2(tMax + 1)
        kMask == jGap - 1
        fac   == (PhaseMod(N) \div 2) \div kNum
        j     == it \div kNum
        k     == it % kNum
        j1k   == j * jGap + kNum + k
        theta == fac * BitAnd(j1k, kMask)
    IN  Wr(Rd(st, j1k, it), j1k, AMulExpI(Load(st.amps, j1k), theta), it)

\* a factor of 2 pi / kNum in place of pi / kNum
applyMergedPhases_body_double(st, tMax, N, it) ==
    LET kNum  == pow2(tMax)
        jGap  == pow2(tMax + 1)
        kMask == kNum - 1
        fac   == PhaseMod(N) \div kNum
        j     == it \div kNum
        k     == it % kNum
        j1k   == j * jGap + kNum + k
        theta == fac * BitAnd(j1k, kMask)
    IN  Wr(Rd(st, j1k, it), j1k, AMulExpI(Load(st.amps, j1k), theta), it)

\* iteration it = j*kNum + k of the loop nest; fac = M_PI / kNum
applyMergedPhases_body(st, tMax, N, it) ==
    LET kNum  == pow2(tMax)
        jGap  == pow2(tMax + 1)
        kMask == kNum - 1
        fac   == (PhaseMod(N) \div 2) \div kNum
        j     == it \div kNum
        k     == it % kNum
        j1k   == j * jGap + kNum + k
        theta == fac * BitAnd(j1k, kMask)
    IN  Wr(Rd(st, j1k, it), j1k, AMulExpI(Load(st.amps, j1k), theta), it)

RECURSIVE applyMergedPhases_loop(_, _, _, _)
applyMergedPhases_loop(st, tMax, N, it) ==
    IF it >= pow2(N - (tMax + 1)) * pow2(tMax) THEN st
    ELSE LET nxt == applyMergedPhases_body(st, tMax, N, it)
         IN  IF nxt.oob \in BOOLEAN
             THEN applyMergedPhases_loop(nxt, tMax, N, it + 1)
             ELSE nxt

applyMergedPhases(psi, tMax, N) == applyMergedPhases_loop(NewRun(psi), tMax, N, 0)

\* ------------------------------------------------- the QFT compositions
\* Each returns the statevector it leaves.  The tests on DOMAIN nxt are
\* always true and only make the statevector a value before the next gate
\* starts.

\* for (t = tMax-1; t >= 0; t--) { theta = 2 pi / 2^m; ...; m++ }
RECURSIVE applyMultiplePhases_loop(_, _, _, _, _)
applyMultiplePhases_loop(psi, tMax, N, t, m) ==
    IF t < 0 THEN psi
    ELSE LET nxt == applyControlledPhase(psi, tMax, t, AngleOf(m, N), N).amps
         IN  IF DOMAIN nxt = DOMAIN psi
             THEN applyMultiplePhases_loop(nxt, tMax, N, t - 1, m + 1)
             ELSE nxt

applyMultiplePhases(psi, tMax, N) ==
    applyMultiplePhases_loop(psi, tMax, N, tMax - 1, 2)

\* for (t = 0; t < N/2; t++) applySwap(psi, t, N-t-1, N)
RECURSIVE applyQFT_swaps(_, _, _)
applyQFT_swaps(psi, N, t) ==
    IF t >= N \div 2 THEN psi
    ELSE LET nxt == applySwap(psi, t, N - t - 1, N).amps
         IN  IF DOMAIN nxt = DOMAIN psi
             THEN applyQFT_swaps(nxt, N, t + 1)
             ELSE nxt

RECURSIVE applyQFTCircuit_loop(_, _, _)
applyQFTCircuit_loop(psi, N, t) ==
    IF t <= 0 THEN psi
    ELSE LET had == applyHadamard(psi, t, N).amps
             nxt == applyMultiplePhases(had, t, N)
         IN  IF DOMAIN had = DOMAIN psi /\ DOMAIN nxt = DOMAIN psi
             THEN applyQFTCircuit_loop(nxt, N, t - 1)
             ELSE nxt

applyQFTCircuit(psi, N) ==
    LET nxt == applyHadamard(applyQFTCircuit_loop(psi, N, N - 1), 0, N).amps
    IN  IF DOMAIN nxt = DOMAIN psi THEN applyQFT_swaps(nxt, N, 0) ELSE nxt

RECURSIVE applyQFTAlgorithm_loop(_, _, _)
applyQFTAlgorithm_loop(psi, N, t) ==
    IF t <= 0 THEN psi
    ELSE LET had == applyHadamard(psi, t, N).amps
             nxt == applyMergedPhases(had, t, N).amps
         IN  IF DOMAIN had = DOMAIN psi /\ DOMAIN nxt = DOMAIN psi
             THEN applyQFTAlgorithm_loop(nxt, N, t - 1)
             ELSE nxt

applyQFTAlgorithm(psi, N) ==
    LET nxt == applyHadamard(applyQFTAlgorithm_loop(psi, N, N - 1), 0, N).amps
    IN  IF DOMAIN nxt = DOMAIN psi THEN applyQFT_swaps(nxt, N, 0) ELSE nxt

\* ------------------------------------------------------------ the state

\* ------------------------------------------------------- randomness

\* round(p / d) for d > 0: to the nearest integer, halves away from zero
round(p, d) ==
    IF p >= 0 THEN (2 * p + d) \div (2 * d)
    ELSE 0 - (((2 * (0 - p)) + d) \div (2 * d))

\* a draw over min..max+1
getRandomInt_wide(min, max, a) ==
    round(min * RandMax + a * (max + 1 - min), RandMax)

\* getRandomDecimal(min, max) = min + (rand() / RAND_MAX) * (max - min),
\* as the fraction over RandMax, with a the value of rand();
\* getRandomInt rounds it
getRandomInt(min, max, a) ==
    round(min * RandMax + a * (max - min), RandMax)

\* --------------------------------------------- the association file
\* A stream is the text of the file, a sequence of characters, and the
\* file position.  Strings are sequences of one-character strings.

\* fopen(filename, "w"): the file is created or truncated
fopen_w == [text |-> <<>>, pos |-> 0]

\* fopen(filename, "r+"): the file is kept, the position is its start
fopen_rplus(text) == [text |-> text, pos |-> 0]

\* fprintf(file, ...) of the formatted characters str: they replace what
\* lies at the position and extend the file beyond its end
fprintf(file, str) ==
    LET end == IF file.pos + Len(str) > Len(file.text)
               THEN file.pos + Len(str) ELSE Len(file.text)
    IN  [text |-> [n \in 1..end |->
                     IF n > file.pos /\ n <= file.pos + Len(str)
                     THEN str[n - file.pos] ELSE file.text[n]],
         pos  |-> file.pos + Len(str)]

\* fseek(file, off, SEEK_END); a position before the start of the file is
\* refused and the position stays (the return value is not looked at)
fseek_end(file, off) ==
    IF Len(file.text) + off < 0 THEN file
    ELSE [file EXCEPT !.pos = Len(file.text) + off]

\* %d
RECURSIVE FormatInt(_)
FormatInt(num) ==
    LET digit(d) == <<"0", "1", "2", "3", "4", "5", "6", "7", "8", "9">>[d + 1]
    IN  IF num < 0 THEN <<"-">> \o FormatInt(0 - num)
        ELSE IF num < 10 THEN <<digit(num)>>
        ELSE FormatInt(num \div 10) \o <<digit(num % 10)>>

openAssocWrite == fprintf(fopen_w, <<"<", "|", "\n">>)

openAssocAppend(text) == fprintf(fseek_end(fopen_rplus(text), 0 - 3), <<",", "\n">>)

closeAssocWrite(file) == fprintf(fseek_end(file, 0 - 2), <<"\n", "|", ">">>)

closeAssocAppend(file) == closeAssocWrite(file)

\* "\"%s\" -> %d,\n"
writeIntToAssoc(file, keyname, num) ==
    fprintf(file, <<"\"">> \o keyname \o <<"\"", " ", "-", ">", " ">>
                    \o FormatInt(num) \o <<",", "\n">>)

\* "\"%s\" -> \"%s\",\n"
writeStringToAssoc(file, keyname, string) ==
    fprintf(file, <<"\"">> \o keyname \o <<"\"", " ", "-", ">", " ", "\"">>
                    \o string \o <<"\"", ",", "\n">>)

VARIABLES
    prog,    \* the program running: "controls", "gates", "omp", "qft", "bits",
             \* "main", "assoc", "bench", "rand"
    N,       \* numQubits
    input,   \* the array as initialised, before any kernel ran
    fam,     \* "s": single-control methods (int c); "m": multi-control
    ctrls,   \* the control positions passed (one position when fam = "s")
    res,     \* controls: method name -> finished run on a copy of input
    calls,   \* gates: the gate calls made so far, each with its run
    psi,     \* gates: the statevector after the calls made so far
    omp,     \* omp: the parallel loop in flight
    qft,     \* qft: the two QFT compositions in flight;
             \* main: the statement main has reached and the pointer it holds
    file,    \* assoc: the association file and the stream open on it
    bench,   \* bench: the benchmark function in flight
    rand     \* rand: the call of getSortedRandomSubReg in flight

vars == <<prog, N, input, fam, ctrls, res, calls, psi, omp, qft, file, bench, rand>>

Indices(n) == 0..(pow2(n) - 1)

\* initArray gives all ones; the runs start from that array, from the
\* arrays differing from it in at most MaxPerturbed places, and from the
\* array of pairwise different values
RealInputs(n) ==
    {[i \in Indices(n) |-> IF i \in S THEN QInt(2) ELSE QInt(1)] :
        S \in {T \in SUBSET Indices(n) : Cardinality(T) <= MaxPerturbed}}
    \cup {[i \in Indices(n) |-> QInt(i + 1)]}

\* the strictly increasing list of the positions in S
RECURSIVE SortedList(_)
SortedList(S) ==
    IF S = {} THEN <<>>
    ELSE LET m == CHOOSE x \in S : \A y \in S : x <= y
         IN  <<m>> \o SortedList(S \ {m})

CtrlLists(n) == {SortedList(S) : S \in (SUBSET (0..(n - 1))) \ {{}}}

\* basis states, the all-ones vector of initOnesStatevector, and a vector
\* of pairwise different amplitudes
ComplexInputs(n) ==
    {[i \in Indices(n) |-> AInt(IF i = x THEN 1 ELSE 0, n)] : x \in Indices(n)}
    \cup {[i \in Indices(n) |-> AInt(1, n)]}
    \cup {[i \in Indices(n) |-> AMulExpI(AInt(i + 1, n), i)]}

InitControls ==
    /\ prog = "controls"
    /\ file = <<>>
    /\ bench = <<>>
    /\ rand = <<>>
    /\ N \in 1..MaxQubits
    /\ input \in RealInputs(N)
    /\ fam \in {"s", "m"}
    /\ ctrls \in CtrlLists(N)
    /\ fam = "s" => Len(ctrls) = 1
    /\ res = <<>>
    /\ calls = <<>>
    /\ psi = <<>>
    /\ omp = <<>>
    /\ qft = <<>>

InitGates ==
    /\ prog = "gates"
    /\ file = <<>>
    /\ bench = <<>>
    /\ rand = <<>>
    /\ N \in 1..MaxQubits
    /\ input \in ComplexInputs(N)
    /\ fam = "-"
    /\ ctrls = <<>>
    /\ res = <<>>
    /\ calls = <<>>
    /\ psi = input
    /\ omp = <<>>
    /\ qft = <<>>

Init == InitControls \/ InitGates

\* --------------------------------------------- controlled-update calls

\* An access outside the array is undefined behaviour.  The stores land
\* beyond the allocated block, so the call either returns with the array
\* holding what its in-range stores left, or the process is killed and no
\* array is left to compare (amps = <<>>).
Outcomes(run) ==
    IF run.oob THEN {run, [run EXCEPT !.amps = <<>>]} ELSE {run}

\* the harness loop for (m=0; m<4; m++) s_methods[m](...): the methods
\* run in table order, each on the array as initialised
CallMethod(meth, before) ==
    /\ prog = "controls"
    /\ DOMAIN res = before
    /\ \E out \in Outcomes(RunMethod(meth, input, pow2(N), ctrls)) :
          res' = [m \in DOMAIN res \cup {meth} |->
                     IF m = meth THEN out ELSE res[m]]
    /\ UNCHANGED <<prog, N, input, fam, ctrls, calls, psi, omp, qft, file, bench, rand>>

s_methodA == fam = "s" /\ CallMethod("sA", {})
s_methodB == fam = "s" /\ CallMethod("sB", {"sA"})
s_methodC == fam = "s" /\ CallMethod("sC", {"sA", "sB"})
s_methodD == fam = "s" /\ CallMethod("sD", {"sA", "sB", "sC"})
m_methodA == fam = "m" /\ CallMethod("mA", {})
m_methodB == fam = "m" /\ CallMethod("mB", {"mA"})
m_methodD == fam = "m" /\ CallMethod("mD", {"mA", "mB"})

\* ------------------------------------------------------------ gate calls

Thetas(n) == {AngleOf(m, n) : m \in 2..(IF n < 2 THEN 2 ELSE n)}

\* a gate run makes one gate call and then one more
GateCall(g, a, b, theta, run) ==
    /\ prog = "gates"
    /\ Len(calls) < 2
    /\ calls' = Append(calls, [gate |-> g, a |-> a, b |-> b, theta |-> theta,
                               pre |-> psi, run |-> run])
    /\ psi' = run.amps
    /\ UNCHANGED <<prog, N, input, fam, ctrls, res, omp, qft, file, bench, rand>>

Hadamard ==
    \E t \in 0..(N - 1) :
        GateCall("H", t, t, 0, applyHadamard(psi, t, N))

ControlledPhase ==
    \E c \in 0..(N - 1), t \in 0..(N - 1), theta \in Thetas(N) :
        /\ c # t
        /\ GateCall("CP", c, t, theta, applyControlledPhase(psi, c, t, theta, N))

Swap ==
    \E q1 \in 0..(N - 1), q2 \in 0..(N - 1) :
        /\ q1 # q2
        /\ GateCall("SW", q1, q2, 0, applySwap(psi, q1, q2, N))

Next ==
    \/ s_methodA \/ s_methodB \/ s_methodC \/ s_methodD
    \/ m_methodA \/ m_methodB \/ m_methodD
    \/ Hadamard \/ ControlledPhase \/ Swap

Spec == Init /\ [][Next]_vars

\* ===================================================================
\* Properties of the sequential runs (specification Spec)
\* ===================================================================

\* the indices a run wrote, in program order
RECURSIVE WriteSeq(_)
WriteSeq(log) ==
    IF log = <<>> THEN <<>>
    ELSE (IF Head(log).op = "w" THEN <<Head(log).idx>> ELSE <<>>)
         \o WriteSeq(Tail(log))

WriteSet(log) == {log[n].idx : n \in {m \in 1..Len(log) : log[m].op = "w"}}

NoDuplicateWrites(log) ==
    \A m, n \in 1..Len(log) :
        (m # n /\ log[m].op = "w" /\ log[n].op = "w") => log[m].idx # log[n].idx

\* index i has every listed control bit set
AllControlsSet(i, cs) == \A n \in 1..Len(cs) : getBit(i, cs[n]) = 1

\* the array the controlled update is meant to produce
Expected(a, cs) ==
    [i \in DOMAIN a |-> IF AllControlsSet(i, cs) THEN f(a[i]) ELSE a[i]]

\* C1: single-control cross-strategy equivalence: s_methodA, s_methodB,
\* s_methodC and s_methodD, each called once on a copy of the same input
\* with the same control position, leave identical arrays.
C1_SingleControlEquivalence ==
    (prog = "controls" /\ fam = "s") =>
        \A m1, m2 \in DOMAIN res : res[m1].amps = res[m2].amps

\* C2: multi-control cross-strategy equivalence: m_methodA, m_methodB and
\* m_methodD, called on copies of the same input with the same strictly
\* increasing control list, leave identical arrays; with k = N controls
\* exactly the all-ones index is transformed.
C2_MultiControlEquivalence ==
    (prog = "controls" /\ fam = "m") =>
        /\ \A m1, m2 \in DOMAIN res : res[m1].amps = res[m2].amps
        /\ Len(ctrls) = N =>
              \A m \in DOMAIN res :
                  res[m].amps =
                      [input EXCEPT ![pow2(N) - 1] = f(input[pow2(N) - 1])]

C2_Witness ==
    /\ prog = "controls" /\ fam = "m" /\ N = 3
    /\ DOMAIN res = MethodsM
    /\ Len(ctrls) = N
    /\ input[7] # input[0]
    /\ res["mD"].amps # input

\* C4 as amended: no strategy or kernel writes a flat index twice in one
\* call; with k controls the enumerating and branch-test strategies
\* (s_methodA, s_methodC, s_methodD, m_methodA, m_methodD) write exactly
\* 2^(N-k) indices, the blend strategies (s_methodB, m_methodB) write all
\* 2^N indices, applySwap writes exactly 2^(N-1) indices, and
\* applyHadamard writes exactly 2^N indices (2^(N-1) pairs, both halves).
C4_WriteSets ==
    /\ prog = "controls" =>
          \A m \in DOMAIN res :
              /\ NoDuplicateWrites(res[m].log)
              /\ Cardinality(WriteSet(res[m].log)) =
                    IF m \in {"sB", "mB"} THEN pow2(N)
                    ELSE pow2(N - Len(ctrls))
    /\ prog = "gates" =>
          \A n \in 1..Len(calls) :
              /\ calls[n].gate \in {"H", "SW"} =>
                    NoDuplicateWrites(calls[n].run.log)
              /\ calls[n].gate = "SW" =>
                    Cardinality(WriteSet(calls[n].run.log)) = pow2(N - 1)
              /\ calls[n].gate = "H" =>
                    Cardinality(WriteSet(calls[n].run.log)) = pow2(N)

\* C4 as stated: ... and exactly 2^(N-1) indices for applyHadamard and
\* applySwap.
C4_WriteSets_AsStated ==
    /\ prog = "controls" =>
          \A m \in DOMAIN res :
              /\ NoDuplicateWrites(res[m].log)
              /\ Cardinality(WriteSet(res[m].log)) = pow2(N - Len(ctrls))
    /\ prog = "gates" =>
          \A n \in 1..Len(calls) :
              calls[n].gate \in {"H", "SW"} =>
                  /\ NoDuplicateWrites(calls[n].run.log)
                  /\ Cardinality(WriteSet(calls[n].run.log)) = pow2(N - 1)

C4_Witness ==
    /\ prog = "gates" /\ N = 3 /\ Len(calls) = 2
    /\ calls[1].gate = "H" /\ calls[2].gate = "SW"
    /\ Len(WriteSeq(calls[1].run.log)) = 8
    /\ Len(WriteSeq(calls[2].run.log)) = 4

\* C6: frame of the controlled update: after a call of any single- or
\* multi-control strategy, an amplitude whose index has a control bit 0
\* is unchanged and one whose index has all control bits 1 is f of its
\* prior value.
C6_Frame ==
    prog = "controls" =>
        \A m \in DOMAIN res : res[m].amps = Expected(input, ctrls)

\* ----------------------------------------------------- gate properties

\* the accesses of loop iteration it, in program order
RECURSIVE IterLog(_, _)
IterLog(log, it) ==
    IF log = <<>> THEN <<>>
    ELSE (IF Head(log).it = it THEN <<[op |-> Head(log).op, idx |-> Head(log).idx]>>
          ELSE <<>>) \o IterLog(Tail(log), it)

NumWritesTo(log, i) ==
    Cardinality({n \in 1..Len(log) : log[n].op = "w" /\ log[n].idx = i})

\* C7: applyControlledPhase(psi, c, t, theta, N), c # t, multiplies by
\* exp(i theta) exactly once every amplitude whose index has bits c and t
\* both 1 (2^(N-2) amplitudes), leaves every other amplitude as it was, and
\* gives the same result with control and target exchanged.
C7_ControlledPhase ==
    prog = "gates" =>
        \A n \in 1..Len(calls) :
            calls[n].gate = "CP" =>
                LET c   == calls[n].a
                    t   == calls[n].b
                    th  == calls[n].theta
                    pre == calls[n].pre
                    run == calls[n].run
                    hit == {i \in Indices(N) : getBit(i, c) = 1 /\ getBit(i, t) = 1}
                IN  /\ Cardinality(hit) = pow2(N - 2)
                    /\ \A i \in Indices(N) :
                          /\ i \in hit =>
                                /\ run.amps[i] = AMulExpI(pre[i], th)
                                /\ NumWritesTo(run.log, i) = 1
                          /\ i \notin hit =>
                                /\ run.amps[i] = pre[i]
                                /\ NumWritesTo(run.log, i) = 0
                    /\ applyControlledPhase(pre, t, c, th, N).amps = run.amps

C7_Witness ==
    /\ prog = "gates" /\ N = 3 /\ Len(calls) = 2
    /\ calls[1].gate = "CP" /\ calls[1].a < calls[1].b
    /\ calls[2].gate = "CP" /\ calls[2].a > calls[2].b
    /\ calls[1].run.amps # calls[1].pre
    /\ calls[2].run.amps # calls[2].pre
    /\ \E i \in Indices(N) : ~AIsZero(input[i]) /\ getBit(i, calls[1].a) = 0

\* C8: applyHadamard(psi, t, N) visits each pair of indices differing only
\* in bit t exactly once (2^(N-1) pairs covering every index once), reads
\* both amplitudes of a pair before writing either, and writes the scaled
\* sum to the index with bit t = 0 and the scaled difference to the index
\* with bit t = 1; a basis state at x goes to amplitudes that are nonzero
\* only at x and at x with bit t flipped.
C8_Hadamard ==
    prog = "gates" =>
        \A n \in 1..Len(calls) :
            calls[n].gate = "H" =>
                LET t   == calls[n].a
                    pre == calls[n].pre
                    run == calls[n].run
                    its == {run.log[m].it : m \in 1..Len(run.log)}
                IN  /\ Cardinality(its) = pow2(N - 1)
                    /\ Len(run.log) = 4 * pow2(N - 1)
                    /\ \A it \in its :
                          LET l  == IterLog(run.log, it)
                              i0 == l[1].idx
                              i1 == l[2].idx
                          IN  /\ Len(l) = 4
                              /\ l[1].op = "r" /\ l[2].op = "r"
                              /\ l[3] = [op |-> "w", idx |-> i0]
                              /\ l[4] = [op |-> "w", idx |-> i1]
                              /\ getBit(i0, t) = 0
                              /\ i1 = flipBit(i0, t)
                              /\ run.amps[i0] = AMulFac(AAdd(pre[i0], pre[i1]))
                              /\ run.amps[i1] = AMulFac(ASub(pre[i0], pre[i1]))
                    /\ \A i \in Indices(N) :
                          Cardinality({m \in 1..Len(run.log) :
                              run.log[m].op = "r" /\ run.log[m].idx = i}) = 1
                    /\ \A x \in Indices(N) :
                          (\A i \in Indices(N) : AIsZero(pre[i]) <=> i # x) =>
                              {i \in Indices(N) : ~AIsZero(run.amps[i])}
                                  = {x, flipBit(x, t)}

\* the scenario N = 3, target 1, input |0>: nonzero exactly at 0 and 2,
\* each 1/sqrt(2)
C8_Witness ==
    /\ prog = "gates" /\ N = 3 /\ Len(calls) = 1
    /\ calls[1].gate = "H" /\ calls[1].a = 1
    /\ input = [i \in Indices(3) |-> AInt(IF i = 0 THEN 1 ELSE 0, 3)]
    /\ {i \in Indices(3) : ~AIsZero(psi[i])} = {0, 2}
    /\ psi[0] = AMulFac(AInt(1, 3)) /\ psi[2] = AMulFac(AInt(1, 3))

\* C9: Hadamard self-inverse: two calls of applyHadamard on the same
\* target return the original amplitude at every index.
C9_HadamardSelfInverse ==
    (prog = "gates" /\ Len(calls) = 2 /\ calls[1].gate = "H"
        /\ calls[2].gate = "H" /\ calls[1].a = calls[2].a) =>
            psi = input

C9_Witness ==
    /\ prog = "gates" /\ N = 3 /\ Len(calls) = 2
    /\ calls[1].gate = "H" /\ calls[2].gate = "H"
    /\ calls[1].a = 1 /\ calls[2].a = 1
    /\ calls[1].run.amps # input
    /\ \A i, j \in Indices(N) : i # j => input[i] # input[j]
    /\ psi = input

\* C10: swap involution: two calls of applySwap on the same pair of
\* distinct qubits, in either argument order, return the original array.
C10_SwapInvolution ==
    (prog = "gates" /\ Len(calls) = 2 /\ calls[1].gate = "SW"
        /\ calls[2].gate = "SW"
        /\ {calls[1].a, calls[1].b} = {calls[2].a, calls[2].b}) =>
            psi = input

C10_Witness ==
    /\ prog = "gates" /\ N = 3 /\ Len(calls) = 2
    /\ calls[1].gate = "SW" /\ calls[2].gate = "SW"
    /\ calls[1].a = 2 /\ calls[1].b = 0
    /\ calls[2].a = 0 /\ calls[2].b = 2
    /\ calls[1].run.amps # input
    /\ psi = input

\* C11: applySwap(psi, q1, q2, N), q1 # q2, exchanges the amplitude at
\* every index whose bits q1 and q2 differ with the amplitude at the index
\* with both bits flipped, each such pair in exactly one loop iteration,
\* touches no index whose two bits are equal, and gives the same result
\* with q1 and q2 exchanged.
C11_Swap ==
    prog = "gates" =>
        \A n \in 1..Len(calls) :
            calls[n].gate = "SW" =>
                LET q1  == calls[n].a
                    q2  == calls[n].b
                    pre == calls[n].pre
                    run == calls[n].run
                    its == {run.log[m].it : m \in 1..Len(run.log)}
                    dif == {i \in Indices(N) : getBit(i, q1) # getBit(i, q2)}
                IN  /\ Cardinality(its) = pow2(N - 2)
                    /\ \A it \in its :
                          LET w == {e.idx : e \in {IterLog(run.log, it)[m] :
                                                    m \in 1..Len(IterLog(run.log, it))}}
                          IN  \E i \in dif : w = {i, flipBit(flipBit(i, q1), q2)}
                    /\ \A i \in Indices(N) :
                          /\ i \in dif =>
                                /\ run.amps[i] = pre[flipBit(flipBit(i, q1), q2)]
                                /\ NumWritesTo(run.log, i) = 1
                          /\ i \notin dif =>
                                /\ run.amps[i] = pre[i]
                                /\ \A m \in 1..Len(run.log) : run.log[m].idx # i
                    /\ ~run.oob
                    /\ applySwap(pre, q2, q1, N).amps = run.amps

C11_Witness ==
    /\ prog = "gates" /\ N = 3 /\ Len(calls) = 1
    /\ calls[1].gate = "SW" /\ calls[1].a = 2 /\ calls[1].b = 0
    /\ \A i, j \in Indices(N) : i # j => input[i] # input[j]
    /\ psi[1] = input[4] /\ psi[4] = input[1]
    /\ psi[3] = input[6] /\ psi[6] = input[3]
    /\ psi[0] = input[0] /\ psi[5] = input[5]

\* ------------------------------------------------ s_methodC on its own

\* the accesses of the run have their index in S
AccessesWithin(log, S) == \A n \in 1..Len(log) : log[n].idx \in S

\* C21: s_methodC applies f directly to the element it reconstructs: for
\* every outer index j and inner index i the value written to the index
\* with prefix j, bit c = 1 and suffix i is f of the prior value stored at
\* that same index, the call neither reads nor writes an element whose
\* index has bit c = 0, and the affix-based s_methodC computes the same
\* array as the original stride-arithmetic s_methodC for every input.
C21_DirectUpdate ==
    (prog = "controls" /\ fam = "s" /\ "sC" \in DOMAIN res) =>
        LET c    == ctrls[1]
            run  == res["sC"]
            ones == {i \in Indices(N) : getBit(i, c) = 1}
        IN  /\ \A j \in 0..(ShiftR(pow2(N), c + 1) - 1), i \in 0..(pow2(c) - 1) :
                  LET j1i == j * pow2(c + 1) + pow2(c) + i
                  IN  run.amps[j1i] = f(input[j1i])
            /\ AccessesWithin(run.log, ones)
            /\ run.amps = RunMethod("sC_orig", input, pow2(N), ctrls).amps

\* what the code does: the affix-based s_methodC writes exactly the indices
\* with bit c = 1, each once, but the value it writes to the index with
\* suffix i is f of the element at index i, which has bit c = 0; the
\* original writes f of the element's own prior value and touches only
\* indices with bit c = 1
SMethodCAsWritten ==
    (prog = "controls" /\ fam = "s" /\ "sC" \in DOMAIN res) =>
        LET c    == ctrls[1]
            run  == res["sC"]
            orig == RunMethod("sC_orig", input, pow2(N), ctrls)
            ones == {i \in Indices(N) : getBit(i, c) = 1}
        IN  /\ WriteSet(run.log) = ones /\ NoDuplicateWrites(run.log)
            /\ \A i \in ones : run.amps[i] = f(input[i % pow2(c)])
            /\ \A i \in Indices(N) \ ones : run.amps[i] = input[i]
            /\ \A n \in 1..Len(run.log) :
                  run.log[n].op = "r" => run.log[n].idx < pow2(c)
            /\ orig.amps = Expected(input, ctrls)
            /\ AccessesWithin(orig.log, ones)
            /\ WriteSeq(orig.log) = WriteSeq(run.log)

\* ===================================================================
\* The OpenMP loops (specification SpecOmp)
\* ===================================================================
\* #pragma omp parallel for ... schedule(static): the iterations of one
\* call are shared out among threads.  Each iteration is modelled as a
\* thread of its own: it evaluates its condition, loads the element it
\* reads, and later stores the element it writes, interleaved freely with
\* the other iterations.  Every static partition into chunks, with any
\* interleaving of the chunks, is one of these behaviours.

OmpInputs(n) ==
    {[i \in Indices(n) |-> QInt(1)], [i \in Indices(n) |-> QInt(i + 1)]}

\* the iterations of the loop, and what each does (fixed when the loop
\* is entered: private(i, ...) index arithmetic on shared read-only inputs)
OmpIters == DOMAIN omp.pc

OmpBody(it) == omp.body[it]

InitOmp ==
    /\ prog = "omp"
    /\ file = <<>>
    /\ bench = <<>>
    /\ rand = <<>>
    /\ N \in 1..OmpQubits
    /\ input \in OmpInputs(N)
    /\ fam \in {"s", "m"}
    /\ ctrls \in CtrlLists(N)
    /\ fam = "s" => Len(ctrls) = 1
    /\ \E meth \in (IF fam = "s" THEN MethodsS ELSE MethodsM) :
          omp = [meth |-> meth,
                 amps |-> input,
                 pc   |-> [it \in 0..(NumIters(meth, pow2(N), ctrls) - 1) |-> "todo"],
                 loc  |-> [it \in 0..(NumIters(meth, pow2(N), ctrls) - 1) |-> QInt(0)],
                 body |-> [it \in 0..(NumIters(meth, pow2(N), ctrls) - 1) |->
                              Body(meth, pow2(N), ctrls, it)]]
    /\ res = <<>>
    /\ calls = <<>>
    /\ psi = <<>>
    /\ qft = <<>>

\* an iteration whose condition is false ends without touching the array
OmpSkip ==
    \E it \in OmpIters :
        /\ omp.pc[it] = "todo"
        /\ ~OmpBody(it).on
        /\ omp' = [omp EXCEPT !.pc[it] = "done"]
        /\ UNCHANGED <<prog, N, input, fam, ctrls, res, calls, psi, qft, file, bench, rand>>

\* the load of amps[src] (the B methods name amps[i] twice in one
\* expression: both loads precede the store and see the same element)
OmpRead ==
    \E it \in OmpIters :
        /\ omp.pc[it] = "todo"
        /\ OmpBody(it).on
        /\ omp' = [omp EXCEPT !.pc[it] = "read",
                              !.loc[it] = Load(omp.amps, OmpBody(it).src)]
        /\ UNCHANGED <<prog, N, input, fam, ctrls, res, calls, psi, qft, file, bench, rand>>

\* the store to amps[dst]
OmpWrite ==
    \E it \in OmpIters :
        /\ omp.pc[it] = "read"
        /\ omp' = [omp EXCEPT !.pc[it] = "done",
                              !.amps[OmpBody(it).dst] =
                                  BodyVal(OmpBody(it), omp.loc[it])]
        /\ UNCHANGED <<prog, N, input, fam, ctrls, res, calls, psi, qft, file, bench, rand>>

NextOmp == OmpSkip \/ OmpRead \/ OmpWrite

SpecOmp == InitOmp /\ [][NextOmp]_vars

OmpHasRead(it) == OmpBody(it).on /\ omp.pc[it] \in {"read", "done"}
OmpHasWritten(it) == OmpBody(it).on /\ omp.pc[it] = "done"
OmpAllDone == \A it \in OmpIters : omp.pc[it] = "done"

\* C5: race freedom of the parallel loops: under any interleaving of the
\* iterations' loads and stores no iteration loads or stores an index that
\* a different iteration of the same call stores, and once every iteration
\* has finished the array equals the result of the sequential loop.
C5_RaceFree ==
    prog = "omp" =>
        /\ \A i1, i2 \in OmpIters :
              (i1 # i2 /\ OmpHasWritten(i1)) =>
                  /\ OmpHasRead(i2) => OmpBody(i2).src # OmpBody(i1).dst
                  /\ OmpHasWritten(i2) => OmpBody(i2).dst # OmpBody(i1).dst
        /\ OmpAllDone =>
              omp.amps = RunMethod(omp.meth, input, pow2(N), ctrls).amps

\* a later iteration has stored while an earlier one sits between its load
\* and its store
C5_Witness ==
    /\ prog = "omp" /\ N = 2 /\ omp.meth = "sD" /\ ctrls = <<1>>
    /\ omp.pc[0] = "read" /\ omp.pc[1] = "done"
    /\ omp.amps[3] = f(input[3])
    /\ omp.amps[2] = input[2]
    /\ input[2] # input[3]

\* ===================================================================
\* The two QFT compositions (specification SpecQft)
\* ===================================================================

\* One composition in flight.  pc names the gate call about to be made:
\*   "H"  applyHadamard(psi, t, N) of the main loop, N-1 >= t > 0
\*   "P"  circuit: applyControlledPhase(psi, t, tt, 2 pi / 2^m, N) inside
\*        applyMultiplePhases(psi, t, N); algorithm: applyMergedPhases(psi, t, N)
\*   "H0" applyHadamard(psi, 0, N) after the loop
\*   "S"  applySwap(psi, t, N-t-1, N) of the swap loop
\* gates lists the gate calls made so far.
QftStart(n, in) ==
    [pc |-> IF n - 1 > 0 THEN "H" ELSE "H0", t |-> n - 1, tt |-> 0, m |-> 2,
     psi |-> in, gates |-> <<>>]

\* a main loop that leaves before its pass for t = 1
QftAfterPhases_early(r) ==
    IF r.t - 1 > 1 THEN [r EXCEPT !.pc = "H", !.t = r.t - 1]
    ELSE [r EXCEPT !.pc = "H0", !.t = 0]

\* where control goes once the phases that follow Hadamard(t) are done
QftAfterPhases(r) ==
    IF r.t - 1 > 0 THEN [r EXCEPT !.pc = "H", !.t = r.t - 1]
    ELSE [r EXCEPT !.pc = "H0", !.t = 0]

\* a swap loop that makes one pass at most
QftSwapLoop_one(r, t) ==
    IF t < 1 /\ t < N \div 2 THEN [r EXCEPT !.pc = "S", !.t = t]
    ELSE [r EXCEPT !.pc = "done", !.t = t]

\* where control goes after the final Hadamard and after each swap
QftSwapLoop(r, t) ==
    IF t < N \div 2 THEN [r EXCEPT !.pc = "S", !.t = t]
    ELSE [r EXCEPT !.pc = "done", !.t = t]

QftDid(r, g, a, b, theta, newpsi) ==
    [r EXCEPT !.psi = newpsi,
              !.gates = Append(@, [gate |-> g, a |-> a, b |-> b, theta |-> theta,
                                   pre |-> r.psi])]

InitQft ==
    /\ prog = "qft"
    /\ file = <<>>
    /\ bench = <<>>
    /\ rand = <<>>
    /\ N \in 1..QftQubits
    /\ input \in ComplexInputs(N)
    /\ qft = [c |-> QftStart(N, input), a |-> QftStart(N, input)]
    /\ fam = "-"
    /\ ctrls = <<>>
    /\ res = <<>>
    /\ calls = <<>>
    /\ psi = <<>>
    /\ omp = <<>>

QftFrame == UNCHANGED <<prog, N, input, fam, ctrls, res, calls, psi, omp, file, bench, rand>>

\* applyQFTCircuit -------------------------------------------------------

QftC_Hadamard ==
    /\ prog = "qft" /\ qft.c.pc = "H"
    /\ LET r == qft.c
           d == QftDid(r, "H", r.t, r.t, 0, applyHadamard(r.psi, r.t, N).amps)
       IN  qft' = [qft EXCEPT !.c = [d EXCEPT !.pc = "P", !.m = 2, !.tt = r.t - 1]]
    /\ QftFrame

\* one pass of the loop of applyMultiplePhases
QftC_Phase ==
    /\ prog = "qft" /\ qft.c.pc = "P"
    /\ LET r     == qft.c
           theta == AngleOf(r.m, N)
           d     == QftDid(r, "CP", r.t, r.tt, theta,
                           applyControlledPhase(r.psi, r.t, r.tt, theta, N).amps)
       IN  qft' = [qft EXCEPT !.c =
                      IF r.tt - 1 >= 0
                      THEN [d EXCEPT !.m = r.m + 1, !.tt = r.tt - 1]
                      ELSE QftAfterPhases([d EXCEPT !.m = r.m + 1, !.tt = r.tt - 1])]
    /\ QftFrame

QftC_Hadamard0 ==
    /\ prog = "qft" /\ qft.c.pc = "H0"
    /\ LET r == qft.c
           d == QftDid(r, "H", 0, 0, 0, applyHadamard(r.psi, 0, N).amps)
       IN  qft' = [qft EXCEPT !.c = QftSwapLoop(d, 0)]
    /\ QftFrame

QftC_Swap ==
    /\ prog = "qft" /\ qft.c.pc = "S"
    /\ LET r == qft.c
           d == QftDid(r, "SW", r.t, N - r.t - 1, 0,
                       applySwap(r.psi, r.t, N - r.t - 1, N).amps)
       IN  qft' = [qft EXCEPT !.c = QftSwapLoop(d, r.t + 1)]
    /\ QftFrame

\* applyQFTAlgorithm, run on a copy of the input once the circuit is done --

QftA_Hadamard ==
    /\ prog = "qft" /\ qft.c.pc = "done" /\ qft.a.pc = "H"
    /\ LET r == qft.a
           d == QftDid(r, "H", r.t, r.t, 0, applyHadamard(r.psi, r.t, N).amps)
       IN  qft' = [qft EXCEPT !.a = [d EXCEPT !.pc = "P"]]
    /\ QftFrame

QftA_MergedPhases ==
    /\ prog = "qft" /\ qft.c.pc = "done" /\ qft.a.pc = "P"
    /\ LET r == qft.a
           d == QftDid(r, "MP", r.t, r.t, 0, applyMergedPhases(r.psi, r.t, N).amps)
       IN  qft' = [qft EXCEPT !.a = QftAfterPhases(d)]
    /\ QftFrame

QftA_Hadamard0 ==
    /\ prog = "qft" /\ qft.c.pc = "done" /\ qft.a.pc = "H0"
    /\ LET r == qft.a
           d == QftDid(r, "H", 0, 0, 0, applyHadamard(r.psi, 0, N).amps)
       IN  qft' = [qft EXCEPT !.a = QftSwapLoop(d, 0)]
    /\ QftFrame

QftA_Swap ==
    /\ prog = "qft" /\ qft.c.pc = "done" /\ qft.a.pc = "S"
    /\ LET r == qft.a
           d == QftDid(r, "SW", r.t, N - r.t - 1, 0,
                       applySwap(r.psi, r.t, N - r.t - 1, N).amps)
       IN  qft' = [qft EXCEPT !.a = QftSwapLoop(d, r.t + 1)]
    /\ QftFrame

NextQft ==
    \/ QftC_Hadamard \/ QftC_Phase \/ QftC_Hadamard0 \/ QftC_Swap
    \/ QftA_Hadamard \/ QftA_MergedPhases \/ QftA_Hadamard0 \/ QftA_Swap

SpecQft == InitQft /\ [][NextQft]_vars

\* C3: QFT equivalence: applyQFTCircuit and applyQFTAlgorithm, run on the
\* same input, end in the same statevector (exact arithmetic, phases as
\* multiples of 2 pi / M): every amplitude has received the same Hadamard
\* mixes and the same total phase and sits at the same final index.
C3_QftEquivalence ==
    (prog = "qft" /\ qft.c.pc = "done" /\ qft.a.pc = "done") =>
        qft.c.psi = qft.a.psi

\* the compositions as single calls leave what their gate calls leave
QftCallsCompose ==
    prog = "qft" =>
        /\ qft.c.pc = "done" => qft.c.psi = applyQFTCircuit(input, N)
        /\ qft.a.pc = "done" => qft.a.psi = applyQFTAlgorithm(input, N)

C3_Witness ==
    /\ prog = "qft" /\ N = 4
    /\ qft.c.pc = "done" /\ qft.a.pc = "done"
    /\ Len(qft.c.gates) = 12 /\ Len(qft.a.gates) = 9
    /\ \A i, j \in Indices(N) : i # j => input[i] # input[j]
    /\ qft.c.psi # input
    /\ qft.c.psi = qft.a.psi

\* the index whose n-bit binary representation is the reverse of i's
RECURSIVE BitReverse(_, _)
BitReverse(i, n) ==
    IF n = 0 THEN 0
    ELSE (i % 2) * pow2(n - 1) + BitReverse(i \div 2, n - 1)

\* the positions of the swap calls in a list of gate calls
SwapCalls(gs) == {n \in 1..Len(gs) : gs[n].gate = "SW"}

\* C12: bit-reversal pass: each composition ends with floor(N/2) calls
\* applySwap(psi, t, N-1-t, N), t = 0 .. floor(N/2)-1 in that order, and
\* after them the amplitude that stood at index i before the first swap
\* stands at the index whose N-bit representation is the reverse of i's.
C12_BitReversal ==
    prog = "qft" =>
        \A x \in {"c", "a"} :
            qft[x].pc = "done" =>
                LET gs     == qft[x].gates
                    first  == Len(gs) - (N \div 2) + 1
                    before == IF N \div 2 = 0 THEN qft[x].psi ELSE gs[first].pre
                IN  /\ SwapCalls(gs) = first..Len(gs)
                    /\ \A n \in SwapCalls(gs) :
                          /\ gs[n].a = n - first
                          /\ gs[n].b = N - 1 - (n - first)
                    /\ \A i \in Indices(N) :
                          qft[x].psi[BitReverse(i, N)] = before[i]

C12_Witness ==
    /\ prog = "qft" /\ N = 4
    /\ qft.c.pc = "done" /\ qft.a.pc = "done"
    /\ Cardinality(SwapCalls(qft.a.gates)) = 2
    /\ qft.a.gates[8].gate = "SW" /\ qft.a.gates[9].gate = "SW"
    /\ qft.a.psi # qft.a.gates[8].pre
    /\ qft.a.psi[1] = qft.a.gates[8].pre[8]
    /\ qft.a.psi[6] = qft.a.gates[8].pre[6]
    /\ \A i, j \in Indices(N) : i # j => qft.a.gates[8].pre[i] # qft.a.gates[8].pre[j]

\* a gate call without the statevector it was made on
GateOf(g, a, b, theta) == [gate |-> g, a |-> a, b |-> b, theta |-> theta]

Schedule(gs) ==
    [n \in 1..Len(gs) |-> GateOf(gs[n].gate, gs[n].a, gs[n].b, gs[n].theta)]

\* Hadamard(t), then the phases with control t and targets t-1, ..., 0 and
\* angles 2 pi / 2^m, m = 2, 3, ...
CircuitPass(t, n) ==
    <<GateOf("H", t, t, 0)>>
        \o [k \in 1..t |-> GateOf("CP", t, t - k, AngleOf(k + 1, n))]

\* Hadamard(t), then the merged phases below t
AlgorithmPass(t, n) == <<GateOf("H", t, t, 0), GateOf("MP", t, t, 0)>>

\* the passes for t, t-1, ..., 1
RECURSIVE CircuitPasses(_, _)
CircuitPasses(t, n) ==
    IF t < 1 THEN <<>> ELSE CircuitPass(t, n) \o CircuitPasses(t - 1, n)

RECURSIVE AlgorithmPasses(_, _)
AlgorithmPasses(t, n) ==
    IF t < 1 THEN <<>> ELSE AlgorithmPass(t, n) \o AlgorithmPasses(t - 1, n)

SwapPass(n) == [k \in 1..(n \div 2) |-> GateOf("SW", k - 1, n - k, 0)]

CircuitSchedule(n) ==
    CircuitPasses(n - 1, n) \o <<GateOf("H", 0, 0, 0)>> \o SwapPass(n)

AlgorithmSchedule(n) ==
    AlgorithmPasses(n - 1, n) \o <<GateOf("H", 0, 0, 0)>> \o SwapPass(n)

IsPrefix(s, t) == Len(s) <= Len(t) /\ s = SubSeq(t, 1, Len(s))

NumGates(gs, g) == Cardinality({n \in 1..Len(gs) : gs[n].gate = g})

\* C13: QFT gate schedule: at every point the gate calls applyQFTCircuit has
\* made are a prefix of: for t = N-1 down to 1, Hadamard(t) then the
\* controlled phases (t, t-1), ..., (t, 0) with angles 2 pi / 2^m, m = 2, 3,
\* ... restarting at 2 for each t; then Hadamard(0); then the swaps.  Those
\* of applyQFTAlgorithm are a prefix of the same with one merged-phase pass
\* in place of each run of controlled phases.  A finished circuit has made
\* N Hadamards and N(N-1)/2 controlled phases, a finished algorithm N
\* Hadamards and N-1 merged passes, and neither makes a Hadamard or phase
\* call after its first swap.
C13_GateSchedule ==
    prog = "qft" =>
        /\ IsPrefix(Schedule(qft.c.gates), CircuitSchedule(N))
        /\ IsPrefix(Schedule(qft.a.gates), AlgorithmSchedule(N))
        /\ qft.c.pc = "done" =>
              /\ Schedule(qft.c.gates) = CircuitSchedule(N)
              /\ NumGates(qft.c.gates, "H") = N
              /\ 2 * NumGates(qft.c.gates, "CP") = N * (N - 1)
        /\ qft.a.pc = "done" =>
              /\ Schedule(qft.a.gates) = AlgorithmSchedule(N)
              /\ NumGates(qft.a.gates, "H") = N
              /\ NumGates(qft.a.gates, "MP") = N - 1
        /\ \A x \in {"c", "a"} :
              \A m, n \in 1..Len(qft[x].gates) :
                  (m < n /\ qft[x].gates[m].gate = "SW") =>
                      qft[x].gates[n].gate = "SW"

C13_Witness ==
    /\ prog = "qft" /\ N = 4
    /\ qft.c.pc = "done" /\ qft.a.pc = "done"
    /\ NumGates(qft.c.gates, "H") = 4 /\ NumGates(qft.c.gates, "CP") = 6
    /\ NumGates(qft.a.gates, "H") = 4 /\ NumGates(qft.a.gates, "MP") = 3
    /\ qft.c.gates[2].theta = AngleOf(2, 4) /\ qft.c.gates[4].theta = AngleOf(4, 4)
    /\ qft.c.gates[6].theta = AngleOf(2, 4) /\ qft.c.gates[6].b = 1
    /\ qft.c.gates[11].gate = "SW" /\ qft.c.gates[12].gate = "SW"

\* ------------------------------------------------- the merged phases

\* the statevector gate call n of composition r left
QftPost(r, n) == IF n < Len(r.gates) THEN r.gates[n + 1].pre ELSE r.psi

\* (pi / 2^tMax) * (i mod 2^tMax), in units of 2 pi / PhaseMod(n)
MergedAngle(i, tMax, n) == (PhaseMod(n) \div pow2(tMax + 1)) * (i % pow2(tMax))

\* the sum of the angles of the controlled phases gs with control tMax
\* whose target bit is 1 in i
RECURSIVE SumOfAngles(_, _, _)
SumOfAngles(gs, tMax, i) ==
    IF gs = <<>> THEN 0
    ELSE (IF Head(gs).gate = "CP" /\ Head(gs).a = tMax /\ getBit(i, Head(gs).b) = 1
          THEN Head(gs).theta ELSE 0)
         + SumOfAngles(Tail(gs), tMax, i)

\* C22: merged-phase formula: for every N, every tMax in 1..N-1 and every
\* index, applyMergedPhases(tMax) applies to each index with bit tMax = 1
\* the angle (pi / 2^tMax) * (index mod 2^tMax) and touches no index with
\* bit tMax = 0, and this angle equals the sum of the angles applied to that
\* index by the tMax controlled-phase gates of applyMultiplePhases(tMax)
\* (angle 2 pi / 2^(tMax-t+1) for each lower qubit t whose bit is 1).
C22_MergedPhaseFormula ==
    prog = "qft" =>
        \A n \in 1..Len(qft.a.gates) :
            LET g    == qft.a.gates[n]
                tMax == g.a
                post == QftPost(qft.a, n)
                run  == applyMergedPhases(g.pre, tMax, N)
            IN  g.gate = "MP" =>
                  /\ tMax \in 1..(N - 1)
                  /\ post = run.amps
                  /\ \A m \in 1..Len(run.log) : getBit(run.log[m].idx, tMax) = 1
                  /\ \A i \in Indices(N) :
                        /\ getBit(i, tMax) = 0 => post[i] = g.pre[i]
                        /\ getBit(i, tMax) = 1 =>
                              /\ post[i] = AMulExpI(g.pre[i], MergedAngle(i, tMax, N))
                              /\ MergedAngle(i, tMax, N)
                                    = SumOfAngles(qft.c.gates, tMax, i)
                  /\ Cardinality({m \in 1..Len(qft.c.gates) :
                                     /\ qft.c.gates[m].gate = "CP"
                                     /\ qft.c.gates[m].a = tMax}) = tMax
                  /\ \A m \in 1..Len(qft.c.gates) :
                        (qft.c.gates[m].gate = "CP" /\ qft.c.gates[m].a = tMax) =>
                            qft.c.gates[m].theta
                                = AngleOf(tMax - qft.c.gates[m].b + 1, N)

\* the merged pass for tMax = 3 of a 4-qubit register has turned amplitudes
\* that were not zero
C22_Witness ==
    /\ prog = "qft" /\ N = 4 /\ qft.a.pc = "done"
    /\ \E n \in 1..Len(qft.a.gates) :
          /\ qft.a.gates[n].gate = "MP" /\ qft.a.gates[n].a = 3
          /\ \E i \in Indices(N) :
                /\ getBit(i, 3) = 1
                /\ ~AIsZero(qft.a.gates[n].pre[i])
                /\ QftPost(qft.a, n)[i] # qft.a.gates[n].pre[i]
                /\ MergedAngle(i, 3, N) = 7

\* ===================================================================
\* The index algebra on its own (specification SpecBits)
\* ===================================================================
\* One call of one of the bit-twiddling functions of utilities.h on
\* arguments within a register of N qubits; res holds what was returned.
\*   fam = "insert": insertZeroBit(num, i), input = [num, i]
\*   fam = "mask":   getBitMask(bits, numBits) with bits = ctrls, then
\*                   bitsAreAllOne(i, mask) for every index i
\*   fam = "affix":  getZeroBitFromAffix(prefix, suffix, i),
\*                   input = [prefix, suffix, i]
\*   fam = "affixes": getZeroBitsFromAffixes(prefix, infix, suffix, t2, t1),
\*                   input = [prefix, infix, suffix, t2, t1], and the loop
\*                   iteration (j, k, l) = (prefix, infix, suffix) of
\*                   applyControlledPhase and applySwap on qubits t2, t1

InsertInputs(n) == [num : 0..(pow2(n - 1) - 1), i : 0..(n - 1)]

\* the lists of n positions of 0..hi, in any order, repeats included
RECURSIVE Lists(_, _)
Lists(n, hi) ==
    IF n = 0 THEN {<<>>}
    ELSE {Append(l, p) : l \in Lists(n - 1, hi), p \in 0..hi}

MaskInputs(n) == UNION {Lists(len, n - 1) : len \in 0..n}

AffixInputs(n) ==
    UNION {[prefix : 0..(pow2(n - i - 1) - 1), suffix : 0..(pow2(i) - 1), i : {i}] :
              i \in 0..(n - 1)}

AffixesOn(n, t2, t1) ==
    [prefix : 0..(pow2(n - t2 - 1) - 1), infix : 0..(pow2(t2 - t1 - 1) - 1),
     suffix : 0..(pow2(t1) - 1), t2 : {t2}, t1 : {t1}]

AffixesInputs(n) ==
    UNION {UNION {AffixesOn(n, t2, t1) : t1 \in 0..(t2 - 1)} : t2 \in 1..(n - 1)}

InitBits ==
    /\ prog = "bits"
    /\ file = <<>>
    /\ bench = <<>>
    /\ rand = <<>>
    /\ N \in 1..BitsQubits
    /\ \/ fam = "insert" /\ input \in InsertInputs(N) /\ ctrls = <<>>
       \/ fam = "mask" /\ input = <<>> /\ ctrls \in MaskInputs(N)
       \/ fam = "affix" /\ input \in AffixInputs(N) /\ ctrls = <<>>
       \/ fam = "affixes" /\ input \in AffixesInputs(N) /\ ctrls = <<>>
    /\ res = <<>>
    /\ calls = <<>>
    /\ psi = <<>>
    /\ omp = <<>>
    /\ qft = <<>>

\* res with the value returned by the call named fn added
Returned(fn, val) ==
    /\ prog = "bits"
    /\ fn \notin DOMAIN res
    /\ res' = [x \in DOMAIN res \cup {fn} |-> IF x = fn THEN val ELSE res[x]]
    /\ UNCHANGED <<prog, N, input, fam, ctrls, calls, psi, omp, qft, file, bench, rand>>

\* insertZeroBit of utilities.h
InsertZeroBitUtilities ==
    /\ fam = "insert"
    /\ Returned("utilities", insertZeroBit_sub(input.num, input.i))

\* insertZeroBit of the utilities bundled with mmaformatter.h
InsertZeroBitBundled ==
    /\ fam = "insert"
    /\ Returned("bundled", insertZeroBit(input.num, input.i))

GetBitMask ==
    /\ fam = "mask"
    /\ Returned("mask", getBitMask(ctrls))

\* bitsAreAllOne(i, cMask) as m_methodA and m_methodB call it, for every i
BitsAreAllOne ==
    /\ fam = "mask"
    /\ "mask" \in DOMAIN res
    /\ Returned("allOne", [i \in Indices(N) |-> bitsAreAllOne(i, res["mask"])])

GetZeroBitFromAffix ==
    /\ fam = "affix"
    /\ Returned("affix", getZeroBitFromAffix(input.prefix, input.suffix, input.i))

GetZeroBitsFromAffixes ==
    /\ fam = "affixes"
    /\ Returned("affixes", getZeroBitsFromAffixes(input.prefix, input.infix,
                                                 input.suffix, input.t2, input.t1))

\* the indices a run touched
Touched(run) == {run.log[n].idx : n \in 1..Len(run.log)}

\* loop iteration j = prefix, k = infix, l = suffix of applyControlledPhase
\* and of applySwap on qubits t2 and t1 of the all-ones statevector: the
\* indices j1k1l, and j0k1l and j1k0l, that the iteration touches
LoopIteration ==
    /\ fam = "affixes"
    /\ LET kNum == pow2(input.t2 - (input.t1 + 1))
           lNum == pow2(input.t1)
           it   == (input.prefix * kNum + input.infix) * lNum + input.suffix
           ones == NewRun([i \in Indices(N) |-> AInt(1, N)])
       IN  Returned("loop",
               [phase |-> Touched(applyControlledPhase_body(
                              ones, input.t2, input.t1, AngleOf(2, N), N, it)),
                swap  |-> Touched(applySwap_body(ones, input.t1, input.t2, N, it))])

NextBits ==
    \/ InsertZeroBitUtilities \/ InsertZeroBitBundled
    \/ GetBitMask \/ BitsAreAllOne
    \/ GetZeroBitFromAffix \/ GetZeroBitsFromAffixes \/ LoopIteration

SpecBits == InitBits /\ [][NextBits]_vars

\* x is num with a zero bit inserted at position i, within n bits
IsZeroBitInserted(x, num, i, n) ==
    /\ x \in Indices(n)
    /\ getBit(x, i) = 0
    /\ \A j \in 0..(i - 1) : getBit(x, j) = getBit(num, j)
    /\ \A j \in i..(n - 2) : getBit(x, j + 1) = getBit(num, j)

\* C14: insertZeroBit(num, i) has bit i zero, the bits of num below i in
\* place and bit j of num at j+1 for every j >= i; num -> flipBit(
\* insertZeroBit(num, i), i) is a bijection from 0..2^(N-1)-1 onto the
\* indices of 0..2^N-1 with bit i set; and the subtract/xor form of
\* utilities.h and the shift/mask/or form bundled with mmaformatter.h
\* return the same value.
C14_InsertZeroBit ==
    (prog = "bits" /\ fam = "insert") =>
        LET i    == input.i
            nums == 0..(pow2(N - 1) - 1)
            set  == {x \in Indices(N) : getBit(x, i) = 1}
        IN  /\ \A fn \in DOMAIN res :
                  /\ IsZeroBitInserted(res[fn], input.num, i, N)
                  /\ flipBit(res[fn], i) \in set
            /\ ("utilities" \in DOMAIN res) =>
                  /\ {flipBit(insertZeroBit_sub(m, i), i) : m \in nums} = set
                  /\ \A m \in nums : m # input.num =>
                        insertZeroBit_sub(m, i) # res["utilities"]
            /\ ("bundled" \in DOMAIN res) =>
                  /\ {flipBit(insertZeroBit(m, i), i) : m \in nums} = set
                  /\ \A m \in nums : m # input.num =>
                        insertZeroBit(m, i) # res["bundled"]
            /\ DOMAIN res = {"utilities", "bundled"} =>
                  res["utilities"] = res["bundled"]

\* 5 = 101b with a zero inserted at position 1 is 1001b = 9
C14_Witness ==
    /\ prog = "bits" /\ fam = "insert" /\ N = 4
    /\ input = [num |-> 5, i |-> 1]
    /\ DOMAIN res = {"utilities", "bundled"}
    /\ res["utilities"] = 9 /\ res["bundled"] = 9

\* the positions a list names
Listed(l) == {l[n] : n \in 1..Len(l)}

\* mask has exactly the positions of l set, and the table of bitsAreAllOne
\* is 1 exactly at the indices with all of them set
MaskIsExact(l) ==
    /\ ("mask" \in DOMAIN res) =>
          /\ res["mask"] \in Indices(N)
          /\ \A p \in 0..(N - 1) : getBit(res["mask"], p) = 1 <=> p \in Listed(l)
    /\ ("allOne" \in DOMAIN res) =>
          \A i \in Indices(N) :
              res["allOne"][i] = 1 <=> \A p \in Listed(l) : getBit(i, p) = 1

BitMaskOfDistinct ==
    (prog = "bits" /\ fam = "mask" /\ Cardinality(Listed(ctrls)) = Len(ctrls)) =>
        MaskIsExact(ctrls)

\* C16: the affix decomposition is a bijection: getZeroBitsFromAffixes(
\* prefix, infix, suffix, hi, lo), hi > lo, prefix < 2^(N-hi-1), infix <
\* 2^(hi-lo-1), suffix < 2^lo, maps the triples one-to-one onto the indices
\* of 0..2^N-1 with bits hi and lo both 0; getZeroBitFromAffix likewise
\* onto the indices with bit i = 0; and the loop arithmetic j*jGap + k*kGap
\* + l of applyControlledPhase and applySwap gives the same index.
C16_AffixBijection ==
    /\ (prog = "bits" /\ fam = "affix" /\ "affix" \in DOMAIN res) =>
          LET i == input.i
              r == res["affix"]
          IN  /\ r \in Indices(N) /\ getBit(r, i) = 0
              /\ ShiftR(r, i + 1) = input.prefix
              /\ truncateBits(r, i) = input.suffix
              /\ \A a \in AffixInputs(N) :
                    (a.i = i /\ a # input) =>
                        getZeroBitFromAffix(a.prefix, a.suffix, i) # r
              /\ {getZeroBitFromAffix(a.prefix, a.suffix, i) :
                      a \in {b \in AffixInputs(N) : b.i = i}}
                    = {x \in Indices(N) : getBit(x, i) = 0}
    /\ (prog = "bits" /\ fam = "affixes" /\ "affixes" \in DOMAIN res) =>
          LET hi   == input.t2
              lo   == input.t1
              r    == res["affixes"]
              same == {b \in AffixesInputs(N) : b.t2 = hi /\ b.t1 = lo}
          IN  /\ r \in Indices(N) /\ getBit(r, hi) = 0 /\ getBit(r, lo) = 0
              /\ ShiftR(r, hi + 1) = input.prefix
              /\ truncateBits(ShiftR(r, lo + 1), hi - lo - 1) = input.infix
              /\ truncateBits(r, lo) = input.suffix
              /\ \A a \in same :
                    a # input =>
                        getZeroBitsFromAffixes(a.prefix, a.infix, a.suffix, hi, lo) # r
              /\ {getZeroBitsFromAffixes(a.prefix, a.infix, a.suffix, hi, lo) :
                      a \in same}
                    = {x \in Indices(N) : getBit(x, hi) = 0 /\ getBit(x, lo) = 0}
              /\ ("loop" \in DOMAIN res) =>
                    /\ res["loop"].phase = {r + pow2(hi) + pow2(lo)}
                    /\ res["loop"].swap = {r + pow2(lo), r + pow2(hi)}

\* in 4 qubits prefix 1 and suffix 1 around the zero bits 2 and 1 give
\* 1001b = 9; the phase loop touches 1111b, the swap loop 1011b and 1101b
C16_Witness ==
    /\ prog = "bits" /\ fam = "affixes" /\ N = 4
    /\ input = [prefix |-> 1, infix |-> 0, suffix |-> 1, t2 |-> 2, t1 |-> 1]
    /\ DOMAIN res = {"affixes", "loop"}
    /\ res["affixes"] = 9
    /\ res["loop"].phase = {15}
    /\ res["loop"].swap = {11, 13}

\* ===================================================================
\* The multi-control methods on a control list that is not increasing
\* (specification SpecUnsorted)
\* ===================================================================

IsIncreasing(l) == \A m, n \in 1..Len(l) : m < n => l[m] < l[n]

\* k >= 2 distinct positions of 0..n-1 in an order that is not increasing
UnsortedLists(n) ==
    {l \in UNION {Lists(len, n - 1) : len \in 2..n} :
        Cardinality(Listed(l)) = Len(l) /\ ~IsIncreasing(l)}

InitUnsorted ==
    /\ prog = "controls"
    /\ file = <<>>
    /\ bench = <<>>
    /\ rand = <<>>
    /\ N \in 2..MaxQubits
    /\ input \in RealInputs(N)
    /\ fam = "m"
    /\ ctrls \in UnsortedLists(N)
    /\ res = <<>>
    /\ calls = <<>>
    /\ psi = <<>>
    /\ omp = <<>>
    /\ qft = <<>>

NextUnsorted == m_methodA \/ m_methodB \/ m_methodD

SpecUnsorted == InitUnsorted /\ [][NextUnsorted]_vars

\* C17: given k >= 2 distinct control positions that are not in strictly
\* increasing order, m_methodD runs all its 2^(N-k) iterations (nothing
\* checks the order) and the set of indices it writes differs from the set
\* of indices with all control bits set; m_methodA and m_methodB do not
\* depend on the order, so the array m_methodD leaves differs from theirs.
C17_UnsortedControls ==
    (prog = "controls" /\ fam = "m" /\ Len(ctrls) >= 2 /\ ~IsIncreasing(ctrls)
        /\ Cardinality(Listed(ctrls)) = Len(ctrls)) =>
        LET set == {i \in Indices(N) : AllControlsSet(i, ctrls)}
        IN  /\ ("mA" \in DOMAIN res) =>
                  /\ WriteSet(res["mA"].log) = set
                  /\ res["mA"].amps = Expected(input, ctrls)
            /\ ("mB" \in DOMAIN res) => res["mB"].amps = res["mA"].amps
            /\ ("mD" \in DOMAIN res) =>
                  /\ WriteSet(res["mD"].log) # set
                  /\ Cardinality({res["mD"].log[n].it : n \in 1..Len(res["mD"].log)})
                        = pow2(N - Len(ctrls))
                  /\ res["mD"].amps # res["mA"].amps
                  /\ res["mD"].amps # res["mB"].amps

\* controls {1, 0} of 3 qubits: indices 5 and 7 are written for 3 and 7
C17_Witness ==
    /\ prog = "controls" /\ fam = "m" /\ N = 3 /\ ctrls = <<1, 0>>
    /\ DOMAIN res = {"mA", "mB", "mD"}
    /\ WriteSet(res["mA"].log) = {3, 7}
    /\ WriteSet(res["mD"].log) = {5, 7}
    /\ ~res["mD"].oob
    /\ res["mD"].amps[3] = input[3] /\ res["mD"].amps[5] = f(input[5])

\* controls {1, 0} of 2 qubits: index 5 of a 4-element array is accessed
UnsortedOutOfRange ==
    /\ prog = "controls" /\ fam = "m" /\ N = 2 /\ ctrls = <<1, 0>>
    /\ "mD" \in DOMAIN res
    /\ res["mD"].oob /\ WriteSet(res["mD"].log) = {5}

\* ===================================================================
\* The methods called with a control position outside the register
\* (specification SpecRange)
\* ===================================================================

\* increasing lists of 1..n positions of 0..n+1 that name a position >= n
BeyondLists(n) ==
    {l \in UNION {Lists(len, n + 1) : len \in 1..n} :
        IsIncreasing(l) /\ \E m \in 1..Len(l) : l[m] >= n}

InitRange ==
    /\ prog = "controls"
    /\ file = <<>>
    /\ bench = <<>>
    /\ rand = <<>>
    /\ N \in 1..MaxQubits
    /\ input \in RealInputs(N)
    /\ fam \in {"s", "m"}
    /\ ctrls \in BeyondLists(N)
    /\ fam = "s" => Len(ctrls) = 1
    /\ res = <<>>
    /\ calls = <<>>
    /\ psi = <<>>
    /\ omp = <<>>
    /\ qft = <<>>

NextRange ==
    \/ s_methodA \/ s_methodB \/ s_methodC \/ s_methodD
    \/ m_methodA \/ m_methodB \/ m_methodD

SpecRange == InitRange /\ [][NextRange]_vars

\* the call did not return an array: the process was stopped
Stopped(run) == run.amps = <<>>

\* C18: a controlled-update strategy called with a control position that
\* is negative or >= N fails with an assertion or explicit error before it
\* reads or writes any amplitude.
C18_FailFast ==
    (prog = "controls" /\ \E n \in 1..Len(ctrls) : ctrls[n] \notin 0..(N - 1)) =>
        \A m \in DOMAIN res : Stopped(res[m]) /\ res[m].log = <<>>

\* what the methods do with a control position >= N: s_methodA and
\* s_methodC return having touched nothing, s_methodB rewrites every
\* amplitude with its own value, and s_methodD accesses 2^(N-1) indices all
\* of which lie outside the array.
OutOfRangeSilent ==
    (prog = "controls" /\ fam = "s" /\ ctrls[1] >= N) =>
        /\ ("sA" \in DOMAIN res) => (res["sA"].log = <<>> /\ res["sA"].amps = input)
        /\ ("sB" \in DOMAIN res) =>
              (WriteSet(res["sB"].log) = Indices(N) /\ res["sB"].amps = input)
        /\ ("sC" \in DOMAIN res) => (res["sC"].log = <<>> /\ res["sC"].amps = input)
        /\ ("sD" \in DOMAIN res) =>
              /\ res["sD"].oob
              /\ Cardinality(WriteSet(res["sD"].log)) = pow2(N - 1)
              /\ WriteSet(res["sD"].log) \cap Indices(N) = {}

\* ===================================================================
\* main of local_qft.c (specification SpecMain)
\* ===================================================================
\* qft.pc is the statement about to run, qft.vec the pointer psi: "none"
\* before createStatevector, "heap" for an allocated block, "NULL" for the
\* result of a malloc that failed.  calls lists the functions called so far
\* with the pointer each was given.

InitMain ==
    /\ prog = "main"
    /\ file = <<>>
    /\ bench = <<>>
    /\ rand = <<>>
    /\ N \in 1..QftQubits
    /\ qft = [pc |-> "create", vec |-> "none"]
    /\ calls = <<>>
    /\ psi = <<>>
    /\ input = <<>>
    /\ fam = "-"
    /\ ctrls = <<>>
    /\ res = <<>>
    /\ omp = <<>>

MainFrame == UNCHANGED <<prog, N, input, fam, ctrls, res, omp, file, bench, rand>>

\* amp* psi = createStatevector(N): malloc succeeds or returns NULL, and
\* the result is returned as it is
Main_createStatevector ==
    /\ prog = "main" /\ qft.pc = "create"
    /\ \E vec \in {"heap", "NULL"} :
          /\ qft' = [pc |-> "init", vec |-> vec]
          /\ calls' = Append(calls, [fn |-> "createStatevector", vec |-> "none"])
    /\ UNCHANGED psi
    /\ MainFrame

\* a function of main called at pc with the pointer psi.  On an allocated
\* block it leaves the statevector out; through NULL its stores are
\* undefined behaviour: the process is killed, or it runs on.
MainCall(pc, fn, next, outs) ==
    /\ prog = "main" /\ qft.pc = pc
    /\ calls' = Append(calls, [fn |-> fn, vec |-> qft.vec])
    /\ \/ /\ qft.vec = "heap"
          /\ psi' \in outs
          /\ qft' = [qft EXCEPT !.pc = next]
       \/ /\ qft.vec = "NULL"
          /\ psi' = psi
          /\ \E to \in {"killed", next} : qft' = [qft EXCEPT !.pc = to]
    /\ MainFrame

\* the random amplitudes are drawn from the statevectors of ComplexInputs
Main_initRandomStatevector ==
    MainCall("init", "initRandomStatevector", "phases", ComplexInputs(N))

Main_applyMultiplePhases ==
    MainCall("phases", "applyMultiplePhases", "merged",
             {IF qft.vec = "heap" THEN applyMultiplePhases(psi, N - 1, N) ELSE psi})

Main_applyMergedPhases ==
    MainCall("merged", "applyMergedPhases", "circuit",
             {IF qft.vec = "heap" THEN applyMergedPhases(psi, N - 1, N).amps ELSE psi})

Main_applyQFTCircuit ==
    MainCall("circuit", "applyQFTCircuit", "algorithm",
             {IF qft.vec = "heap" THEN applyQFTCircuit(psi, N) ELSE psi})

Main_applyQFTAlgorithm ==
    MainCall("algorithm", "applyQFTAlgorithm", "free",
             {IF qft.vec = "heap" THEN applyQFTAlgorithm(psi, N) ELSE psi})

\* free(psi); return 0;  free(NULL) does nothing
Main_free ==
    /\ prog = "main" /\ qft.pc = "free"
    /\ calls' = Append(calls, [fn |-> "free", vec |-> qft.vec])
    /\ qft' = [qft EXCEPT !.pc = "exit"]
    /\ UNCHANGED psi
    /\ MainFrame

NextMain ==
    \/ Main_createStatevector \/ Main_initRandomStatevector
    \/ Main_applyMultiplePhases \/ Main_applyMergedPhases
    \/ Main_applyQFTCircuit \/ Main_applyQFTAlgorithm \/ Main_free

SpecMain == InitMain /\ [][NextMain]_vars

\* C19: when the buffer cannot be allocated, createStatevector reports the
\* failure and the failure is fatal: no initialiser or gate kernel is run
\* afterwards on the unallocated vector.
C19_AllocationFailureFatal ==
    prog = "main" =>
        \A n \in 1..Len(calls) :
            calls[n].fn # "createStatevector" => calls[n].vec # "NULL"

\* on an allocated block main makes its seven calls, each on the block,
\* and exits with a statevector of 2^N amplitudes
MainRunsToExit ==
    (prog = "main" /\ qft.pc = "exit" /\ qft.vec = "heap") =>
        /\ Len(calls) = 7
        /\ \A n \in 1..Len(calls) : n > 1 => calls[n].vec = "heap"
        /\ DOMAIN psi = Indices(N)

\* ===================================================================
\* The association file (specification SpecAssoc)
\* ===================================================================
\* file.pc: "new" before openAssocWrite, "write" / "append" while the
\* stream is open, "closed" after a close.  file.text is the file,
\* file.pos the position of the open stream, file.writes the write calls
\* made since the last open, file.appends the append cycles begun,
\* file.bare whether some close came right after its open.  calls
\* lists the entries written so far, each as the characters of
\* "key" -> value.

InitAssoc ==
    /\ prog = "assoc"
    /\ file = [pc |-> "new", text |-> <<>>, pos |-> 0, writes |-> 0, appends |-> 0,
               bare |-> FALSE]
    /\ calls = <<>>
    /\ bench = <<>>
    /\ rand = <<>>
    /\ N = 0
    /\ input = <<>>
    /\ fam = "-"
    /\ ctrls = <<>>
    /\ res = <<>>
    /\ psi = <<>>
    /\ omp = <<>>
    /\ qft = <<>>

AssocFrame ==
    UNCHANGED <<prog, N, input, fam, ctrls, res, psi, omp, qft, bench, rand>>

\* file with the stream st on it
Stream(pc, st, writes, appends) ==
    [pc |-> pc, text |-> st.text, pos |-> st.pos, writes |-> writes,
     appends |-> appends,
     bare |-> file.bare \/ (pc = "closed" /\ writes = 0)]

OpenAssocWrite ==
    /\ prog = "assoc" /\ file.pc = "new"
    /\ file' = Stream("write", openAssocWrite, 0, 0)
    /\ UNCHANGED calls
    /\ AssocFrame

WriteIntToAssoc ==
    /\ prog = "assoc" /\ file.pc \in {"write", "append"}
    /\ file.writes < MaxWrites
    /\ \E num \in {12} :
          /\ file' = Stream(file.pc, writeIntToAssoc(file, <<"a">>, num),
                            file.writes + 1, file.appends)
          /\ calls' = Append(calls, <<"\"", "a", "\"", " ", "-", ">", " ">>
                                      \o FormatInt(num))
    /\ AssocFrame

WriteStringToAssoc ==
    /\ prog = "assoc" /\ file.pc \in {"write", "append"}
    /\ file.writes < MaxWrites
    /\ file' = Stream(file.pc, writeStringToAssoc(file, <<"b", "c">>, <<"x">>),
                      file.writes + 1, file.appends)
    /\ calls' = Append(calls, <<"\"", "b", "c", "\"", " ", "-", ">", " ",
                                "\"", "x", "\"">>)
    /\ AssocFrame

CloseAssocWrite ==
    /\ prog = "assoc" /\ file.pc = "write"
    /\ file' = Stream("closed", closeAssocWrite(file), file.writes, file.appends)
    /\ UNCHANGED calls
    /\ AssocFrame

OpenAssocAppend ==
    /\ prog = "assoc" /\ file.pc = "closed"
    /\ file.appends < MaxAppends
    /\ file' = Stream("append", openAssocAppend(file.text), 0, file.appends + 1)
    /\ UNCHANGED calls
    /\ AssocFrame

CloseAssocAppend ==
    /\ prog = "assoc" /\ file.pc = "append"
    /\ file' = Stream("closed", closeAssocAppend(file), file.writes, file.appends)
    /\ UNCHANGED calls
    /\ AssocFrame

NextAssoc ==
    \/ OpenAssocWrite \/ WriteIntToAssoc \/ WriteStringToAssoc
    \/ CloseAssocWrite \/ OpenAssocAppend \/ CloseAssocAppend

SpecAssoc == InitAssoc /\ [][NextAssoc]_vars

\* the text without its newlines
RECURSIVE NoNewlines(_)
NoNewlines(text) ==
    IF text = <<>> THEN <<>>
    ELSE (IF Head(text) = "\n" THEN <<>> ELSE <<Head(text)>>)
         \o NoNewlines(Tail(text))

\* the entries in order with a comma between consecutive ones
RECURSIVE Joined(_)
Joined(entries) ==
    IF entries = <<>> THEN <<>>
    ELSE IF Len(entries) = 1 THEN entries[1]
    ELSE entries[1] \o <<",">> \o Joined(Tail(entries))

\* one association holding the entries, newlines aside
IsAssociationOf(text, entries) ==
    NoNewlines(text) = <<"<", "|">> \o Joined(entries) \o <<"|", ">">>

\* C20: after openAssocWrite, n >= 0 write...ToAssoc calls and
\* closeAssocWrite, followed by any number of cycles of openAssocAppend,
\* m >= 0 write...ToAssoc calls and closeAssocAppend, the file holds
\* exactly one association: the opening delimiter, every entry written so
\* far in call order with a comma between consecutive entries and none
\* after the last, and one closing delimiter as the final characters.
C20_AssocProtocol ==
    (prog = "assoc" /\ file.pc = "closed") =>
        /\ IsAssociationOf(file.text, calls)
        /\ SubSeq(file.text, Len(file.text) - 1, Len(file.text)) = <<"|", ">">>

\* what the code does: the closed file ends in "|>", and it is one
\* association of the entries exactly when no close came right after its
\* open; such a close of a write loses the "|" of the opening delimiter,
\* and such a close of an append leaves a comma after the last entry
AssocAsWritten ==
    (prog = "assoc" /\ file.pc = "closed") =>
        /\ SubSeq(file.text, Len(file.text) - 1, Len(file.text)) = <<"|", ">">>
        /\ IsAssociationOf(file.text, calls) <=> ~file.bare
        /\ (calls = <<>> /\ file.appends = 0) =>
              file.text = <<"<", "\n", "|", ">">>
        /\ (file.appends = 1 /\ file.writes = 0 /\ Len(calls) = 1) =>
              file.text = <<"<", "|", "\n">> \o calls[1] \o <<",", "\n", "|", ">">>

\* ===================================================================
\* s_benchmarking and m_benchmarking (specification SpecBench)
\* ===================================================================
\* bench.pc: "enter" at the call; "cfg" at the head of the body of the loop
\* over configurations (s: method m and control c; m: numCtrls); "rep" at
\* the head of a repetition of m_benchmarking; "run" before a timed call;
\* "process" before the averages are stored; "write" before the file is
\* written; "done" at the return.
\* bench.clock lists the durations the timer measures, in order and then
\* over again; bench.k counts the timed regions so far.
\* bench.meas lists every measurement made (method, configuration,
\* duration), bench.cfgs the configurations whose averages were stored,
\* bench.runs the timed calls of the repetition in flight.

\* the function tables
s_methods == <<"sA", "sB", "sC", "sD">>
m_methods == <<"mA", "mB", "mD">>

\* initArray(amps, numAmps)
initArray(numAmps) == [i \in 0..(numAmps - 1) |-> QInt(1)]

\* RECORD_TIMING(double dur) of timed region k
RecordTiming(clock, k) == QInt(clock[(k % Len(clock)) + 1])

Clocks == {<<1, 2, 4>>, <<3, 1, 1, 2>>}

\* what getSortedRandomSubReg(ctrls, numCtrls, numQubits) can leave in ctrls
SubRegs(numCtrls, numQubits) ==
    {SortedList(S) : S \in {T \in SUBSET (0..(numQubits - 1)) :
                               Cardinality(T) = numCtrls}}

\* double totalDurs[3]; double totalDursSquared[3]; declared without an
\* initialiser in the body of the loop: the elements are indeterminate.
\* They hold zero, or what the same stack slots held before (the totals of
\* the previous configuration; 7 stands for what was there at first).
Indeterminate(slot) == {[m \in 0..2 |-> QInt(0)], slot}

InitBench ==
    /\ prog = "bench"
    /\ \E fn \in {"s", "m"}, numQubits \in 1..BenchQubits,
          numReps \in 1..MaxReps, clock \in Clocks :
          bench = [fn |-> fn, numQubits |-> numQubits, numReps |-> numReps,
                   clock |-> clock, k |-> 0, pc |-> "enter",
                   m |-> 0, c |-> 0, numCtrls |-> 0, r |-> 0,
                   ctrls |-> <<>>, amps |-> <<>>,
                   totalDurs |-> [m \in 0..2 |-> QInt(7)],
                   totalDursSquared |-> [m \in 0..2 |-> QInt(7)],
                   durs |-> <<>>, vars |-> <<>>,
                   meas |-> <<>>, cfgs |-> {}, runs |-> <<>>]
    /\ file = <<>>
    /\ rand = <<>>
    /\ N = 0
    /\ input = <<>>
    /\ fam = "-"
    /\ ctrls = <<>>
    /\ res = <<>>
    /\ calls = <<>>
    /\ psi = <<>>
    /\ omp = <<>>
    /\ qft = <<>>

BenchFrame ==
    UNCHANGED <<prog, N, input, fam, ctrls, res, calls, psi, omp, qft, file, rand>>

\* s_benchmarking up to its loops: double durs[4][numQubits], vars[4][numQubits]
S_enter ==
    /\ prog = "bench" /\ bench.fn = "s" /\ bench.pc = "enter"
    /\ bench' = [bench EXCEPT
          !.amps = initArray(pow2(bench.numQubits)),
          !.durs = [m \in 0..3 |-> [c \in 0..(bench.numQubits - 1) |-> "indeterminate"]],
          !.vars = [m \in 0..3 |-> [c \in 0..(bench.numQubits - 1) |-> "indeterminate"]],
          !.m = 0, !.c = 0, !.pc = "cfg"]
    /\ BenchFrame

\* double totalDur = 0; double totalDurSquared = 0;
S_declare ==
    /\ prog = "bench" /\ bench.fn = "s" /\ bench.pc = "cfg"
    /\ bench' = [bench EXCEPT !.totalDurs = QInt(0), !.totalDursSquared = QInt(0),
                              !.r = 0, !.pc = "run"]
    /\ BenchFrame

\* one pass of the loop over r
S_run ==
    /\ prog = "bench" /\ bench.fn = "s" /\ bench.pc = "run"
    /\ LET numAmps == pow2(bench.numQubits)
           before  == initArray(numAmps)
           meth    == s_methods[bench.m + 1]
           dur     == RecordTiming(bench.clock, bench.k)
       IN  \E out \in Outcomes(RunMethod(meth, before, numAmps, <<bench.c>>)) :
             bench' = [bench EXCEPT
                !.amps = out.amps,
                !.k = @ + 1,
                !.totalDurs = QAdd(@, dur),
                !.totalDursSquared = QAdd(@, QMul(dur, dur)),
                !.meas = Append(@, [m |-> bench.m, cfg |-> bench.c, dur |-> dur]),
                !.runs = <<[m |-> bench.m, ctrls |-> <<bench.c>>, before |-> before]>>,
                !.r = @ + 1,
                !.pc = IF bench.r + 1 < bench.numReps THEN "run" ELSE "process"]
    /\ BenchFrame

\* durs[m][c] = totalDur/numReps; vars[m][c] = ...; then c++, m++
S_process ==
    /\ prog = "bench" /\ bench.fn = "s" /\ bench.pc = "process"
    /\ LET dur == QMul(bench.totalDurs, <<1, bench.numReps>>)
           var == QSub(QMul(bench.totalDursSquared, <<1, bench.numReps>>),
                       QMul(dur, dur))
           lastC == bench.c + 1 >= bench.numQubits
       IN  bench' = [bench EXCEPT
              !.durs[bench.m][bench.c] = dur,
              !.vars[bench.m][bench.c] = var,
              !.cfgs = @ \cup {<<bench.m, bench.c>>},
              !.c = IF lastC THEN 0 ELSE bench.c + 1,
              !.m = IF lastC THEN bench.m + 1 ELSE bench.m,
              !.pc = IF lastC /\ bench.m + 1 >= 4 THEN "write" ELSE "cfg"]
    /\ BenchFrame

\* m_benchmarking up to its measurement loop: the arrays get their -1
\* placeholders; for (numCtrls = 2; numCtrls <= numQubits; ...)
M_enter ==
    /\ prog = "bench" /\ bench.fn = "m" /\ bench.pc = "enter"
    /\ bench' = [bench EXCEPT
          !.amps = initArray(pow2(bench.numQubits)),
          !.durs = [m \in 0..2 |-> [i \in 0..bench.numQubits |-> QInt(0 - 1)]],
          !.vars = [m \in 0..2 |-> [i \in 0..bench.numQubits |-> QInt(0 - 1)]],
          !.numCtrls = 2,
          !.pc = IF 2 <= bench.numQubits THEN "cfg" ELSE "write"]
    /\ BenchFrame

\* int ctrls[numCtrls]; double totalDurs[3]; double totalDursSquared[3];
M_declare ==
    /\ prog = "bench" /\ bench.fn = "m" /\ bench.pc = "cfg"
    /\ \E kind \in {"zero", "stale"} :
          bench' = [bench EXCEPT
             !.totalDurs = IF kind = "zero" THEN [m \in 0..2 |-> QInt(0)] ELSE @,
             !.totalDursSquared = IF kind = "zero" THEN [m \in 0..2 |-> QInt(0)] ELSE @,
             !.r = 0, !.pc = "rep"]
    /\ BenchFrame

\* getSortedRandomSubReg(ctrls, numCtrls, numQubits) at the head of a repetition
M_draw ==
    /\ prog = "bench" /\ bench.fn = "m" /\ bench.pc = "rep"
    /\ \E sub \in SubRegs(bench.numCtrls, bench.numQubits) :
          bench' = [bench EXCEPT !.ctrls = sub, !.m = 0, !.runs = <<>>, !.pc = "run"]
    /\ BenchFrame

\* one pass of the loop over m
M_run ==
    /\ prog = "bench" /\ bench.fn = "m" /\ bench.pc = "run"
    /\ LET numAmps == pow2(bench.numQubits)
           before  == initArray(numAmps)
           meth    == m_methods[bench.m + 1]
           dur     == RecordTiming(bench.clock, bench.k)
           lastM   == bench.m + 1 >= 3
       IN  \E out \in Outcomes(RunMethod(meth, before, numAmps, bench.ctrls)) :
             bench' = [bench EXCEPT
                !.amps = out.amps,
                !.k = @ + 1,
                !.totalDurs[bench.m] = QAdd(@, dur),
                !.totalDursSquared[bench.m] = QAdd(@, QMul(dur, dur)),
                !.meas = Append(@, [m |-> bench.m, cfg |-> bench.numCtrls, dur |-> dur]),
                !.runs = Append(@, [m |-> bench.m, ctrls |-> bench.ctrls,
                                    before |-> before]),
                !.m = @ + 1,
                !.r = IF lastM THEN @ + 1 ELSE @,
                !.pc = IF ~lastM THEN "run"
                       ELSE IF bench.r + 1 < bench.numReps THEN "rep"
                       ELSE "process"]
    /\ BenchFrame

\* the loop that stores durs[m][numCtrls] and vars[m][numCtrls]; numCtrls++
M_process ==
    /\ prog = "bench" /\ bench.fn = "m" /\ bench.pc = "process"
    /\ LET dur(m) == QMul(bench.totalDurs[m], <<1, bench.numReps>>)
           var(m) == QSub(QMul(bench.totalDursSquared[m], <<1, bench.numReps>>),
                          QMul(dur(m), dur(m)))
       IN  bench' = [bench EXCEPT
              !.durs = [m \in 0..2 |-> [@[m] EXCEPT ![bench.numCtrls] = dur(m)]],
              !.vars = [m \in 0..2 |-> [@[m] EXCEPT ![bench.numCtrls] = var(m)]],
              !.cfgs = @ \cup {<<m, bench.numCtrls>> : m \in 0..2},
              !.numCtrls = @ + 1,
              !.pc = IF bench.numCtrls + 1 <= bench.numQubits THEN "cfg" ELSE "write"]
    /\ BenchFrame

\* the arrays are written to the file and amps is freed
Bench_write ==
    /\ prog = "bench" /\ bench.pc = "write"
    /\ bench' = [bench EXCEPT !.pc = "done", !.amps = <<>>]
    /\ BenchFrame

NextBench ==
    \/ S_enter \/ S_declare \/ S_run \/ S_process
    \/ M_enter \/ M_declare \/ M_draw \/ M_run \/ M_process
    \/ Bench_write

SpecBench == InitBench /\ [][NextBench]_vars

\* the sum of the durations measured for method m in configuration cfg
RECURSIVE SumMeasured(_, _, _)
SumMeasured(meas, m, cfg) ==
    IF meas = <<>> THEN QInt(0)
    ELSE QAdd(IF Head(meas).m = m /\ Head(meas).cfg = cfg
              THEN Head(meas).dur ELSE QInt(0),
              SumMeasured(Tail(meas), m, cfg))

NumMeasured(meas, m, cfg) ==
    Cardinality({n \in 1..Len(meas) : meas[n].m = m /\ meas[n].cfg = cfg})

\* the timed calls of the repetition in flight ran the methods in table
\* order, each on the all-ones array and on the control list drawn
SameControlsFreshArray ==
    \A n \in 1..Len(bench.runs) :
        /\ bench.runs[n].m = n - 1
        /\ bench.runs[n].ctrls = bench.ctrls
        /\ bench.runs[n].before = initArray(pow2(bench.numQubits))

\* C23: m_benchmarking coverage: the multi-control benchmark measures every
\* number of controls from 1 up to numQubits, so that every entry
\* 1..numQubits of each method's duration and variance array is overwritten
\* from its -1 placeholder, and within each repetition all three methods
\* m_methodA, m_methodB, m_methodD are run on the identical control list and
\* on an array re-initialised to all ones.
C23_BenchCoverage ==
    (prog = "bench" /\ bench.fn = "m") =>
        /\ SameControlsFreshArray
        /\ bench.pc = "rep" /\ bench.r > 0 => Len(bench.runs) = 3
        /\ bench.pc = "done" =>
              \A m \in 0..2, i \in 1..bench.numQubits :
                  /\ <<m, i>> \in bench.cfgs
                  /\ NumMeasured(bench.meas, m, i) = bench.numReps
                  /\ bench.durs[m][i] # QInt(0 - 1)
                  /\ bench.vars[m][i] # QInt(0 - 1)

\* what the code does: the measurement loop starts at numCtrls = 2, so the
\* entries 0 and 1 of every array keep their placeholder and the entries
\* 2..numQubits are stored; the three methods of a repetition share the
\* control list and each starts from the all-ones array
BenchCoverageAsWritten ==
    (prog = "bench" /\ bench.fn = "m") =>
        /\ SameControlsFreshArray
        /\ bench.pc = "rep" /\ bench.r > 0 => Len(bench.runs) = 3
        /\ bench.pc = "done" =>
              /\ bench.cfgs = {<<m, i>> : m \in 0..2, i \in 2..bench.numQubits}
              /\ \A m \in 0..2, i \in 0..bench.numQubits :
                    /\ NumMeasured(bench.meas, m, i)
                          = IF i >= 2 THEN bench.numReps ELSE 0
                    /\ i < 2 => /\ bench.durs[m][i] = QInt(0 - 1)
                                /\ bench.vars[m][i] = QInt(0 - 1)

\* C26: per-rep timing aggregates: for every method and every benchmarked
\* configuration, the duration written by s_benchmarking and m_benchmarking
\* equals the sum of exactly the numReps durations measured for that method
\* and that configuration divided by numReps: each accumulator starts at 0
\* for each configuration and receives no contribution from other
\* configurations, other methods or indeterminate initial contents.
C26_TimingAggregates ==
    prog = "bench" =>
        /\ \A p \in bench.cfgs :
              /\ NumMeasured(bench.meas, p[1], p[2]) = bench.numReps
              /\ bench.durs[p[1]][p[2]]
                    = QMul(SumMeasured(bench.meas, p[1], p[2]), <<1, bench.numReps>>)
        /\ (bench.fn = "m" /\ bench.pc = "rep" /\ bench.r = 0) =>
              \A m \in 0..2 : /\ bench.totalDurs[m] = QInt(0)
                              /\ bench.totalDursSquared[m] = QInt(0)
        /\ (bench.fn = "s" /\ bench.pc = "run" /\ bench.r = 0) =>
              /\ bench.totalDurs = QInt(0)
              /\ bench.totalDursSquared = QInt(0)

\* what the code does: s_benchmarking starts each accumulator at 0 and
\* stores the mean of the numReps durations of its configuration;
\* m_benchmarking stores that mean plus whatever its accumulator held when
\* declared, divided by numReps
TimingAggregatesAsWritten ==
    prog = "bench" =>
        /\ bench.fn = "s" =>
              \A p \in bench.cfgs :
                  /\ NumMeasured(bench.meas, p[1], p[2]) = bench.numReps
                  /\ bench.durs[p[1]][p[2]]
                        = QMul(SumMeasured(bench.meas, p[1], p[2]), <<1, bench.numReps>>)
        /\ bench.fn = "m" =>
              \A p \in bench.cfgs :
                  LET stored(i) == QMul(bench.durs[p[1]][i], QInt(bench.numReps))
                  IN  /\ NumMeasured(bench.meas, p[1], p[2]) = bench.numReps
                      /\ QSub(stored(p[2]), SumMeasured(bench.meas, p[1], p[2]))
                            \in {QInt(0), QInt(7)}
                                \cup {stored(i) : i \in 2..(p[2] - 1)}

\* ===================================================================
\* getSortedRandomSubReg (specifications SpecRand and SpecRandFair)
\* ===================================================================
\* rand.pc: "draw" inside the loop of getRandomBitMask, about to call
\* getRandomInt; "scan" inside the loop of getSortedRandomSubReg, about to
\* test getBit(mask, q); "done" at the return.
\* rand.n and rand.idx are the loop counters n and i of the two functions,
\* rand.i the position last drawn, rand.reads the bit positions of mask
\* that were read, rand.rejected whether a draw was thrown away.

InitRand ==
    /\ prog = "rand"
    /\ \E RegSize \in 1..MaxReg :
          \E SubRegSize \in 1..RegSize :
             rand = [pc |-> "draw", RegSize |-> RegSize, SubRegSize |-> SubRegSize,
                     mask |-> 0, n |-> 0, i |-> 0, q |-> 0, idx |-> 0,
                     ret |-> <<>>, reads |-> {}, rejected |-> FALSE]
    /\ file = <<>>
    /\ bench = <<>>
    /\ N = 0
    /\ input = <<>>
    /\ fam = "-"
    /\ ctrls = <<>>
    /\ res = <<>>
    /\ calls = <<>>
    /\ psi = <<>>
    /\ omp = <<>>
    /\ qft = <<>>

RandFrame ==
    UNCHANGED <<prog, N, input, fam, ctrls, res, calls, psi, omp, qft, file, bench>>

\* i = getRandomInt(0, len-1) finds bit i of mask clear: mask = flipBit(mask, i)
\* and the loop over n goes on or ends
DrawFresh ==
    /\ prog = "rand" /\ rand.pc = "draw"
    /\ \E a \in 0..RandMax :
          LET i == getRandomInt(0, rand.RegSize - 1, a)
          IN  /\ getBit(rand.mask, i) = 0
              /\ rand' = [rand EXCEPT
                    !.i = i,
                    !.reads = @ \cup {i},
                    !.mask = flipBit(@, i),
                    !.n = @ + 1,
                    !.pc = IF rand.n + 1 < rand.SubRegSize THEN "draw" ELSE "scan"]
    /\ RandFrame

\* i = getRandomInt(0, len-1) finds bit i of mask set: draw again
DrawStale ==
    /\ prog = "rand" /\ rand.pc = "draw"
    /\ \E a \in 0..RandMax :
          LET i == getRandomInt(0, rand.RegSize - 1, a)
          IN  /\ getBit(rand.mask, i) = 1
              /\ rand' = [rand EXCEPT !.i = i, !.reads = @ \cup {i},
                                      !.rejected = TRUE]
    /\ RandFrame

\* while (getBit(mask, q) != 1) q++;
ScanSkip ==
    /\ prog = "rand" /\ rand.pc = "scan"
    /\ rand.q <= rand.RegSize
    /\ getBit(rand.mask, rand.q) # 1
    /\ rand' = [rand EXCEPT !.reads = @ \cup {rand.q}, !.q = @ + 1]
    /\ RandFrame

\* the while loop ends: ret[i] = q++; and the loop over i goes on or ends
ScanTake ==
    /\ prog = "rand" /\ rand.pc = "scan"
    /\ getBit(rand.mask, rand.q) = 1
    /\ rand' = [rand EXCEPT
          !.reads = @ \cup {rand.q},
          !.ret = Append(@, rand.q),
          !.q = @ + 1,
          !.idx = @ + 1,
          !.pc = IF rand.idx + 1 < rand.SubRegSize THEN "scan" ELSE "done"]
    /\ RandFrame

NextRand == DrawFresh \/ DrawStale \/ ScanSkip \/ ScanTake

SpecRand == InitRand /\ [][NextRand]_vars

\* the program runs on, and the draws are fair: a position whose bit is
\* clear keeps being possible and is drawn in the end
SpecRandFair ==
    /\ SpecRand
    /\ WF_vars(DrawFresh)
    /\ WF_vars(ScanSkip \/ ScanTake)

\* nothing outside 0..RegSize-1 was drawn or read, and a finished call has
\* filled ret with SubRegSize positions of the register in increasing order
RandSafe ==
    prog = "rand" =>
        /\ rand.i \in 0..(rand.RegSize - 1)
        /\ \A a \in 0..RandMax :
              getRandomInt(0, rand.RegSize - 1, a) \in 0..(rand.RegSize - 1)
        /\ rand.reads \subseteq 0..(rand.RegSize - 1)
        /\ rand.pc = "done" =>
              /\ Len(rand.ret) = rand.SubRegSize
              /\ \A n \in 1..Len(rand.ret) : rand.ret[n] \in 0..(rand.RegSize - 1)
              /\ \A m, n \in 1..Len(rand.ret) : m < n => rand.ret[m] < rand.ret[n]
              /\ \A b \in 0..(rand.RegSize - 1) :
                    getBit(rand.mask, b) = 1 <=> \E n \in 1..Len(rand.ret) : rand.ret[n] = b
              /\ rand.ret \in SubRegs(rand.SubRegSize, rand.RegSize)

\* C24: getSortedRandomSubReg(ret, k, n) with 1 <= k <= n: for every outcome
\* of the random draws it fills ret with exactly k pairwise distinct
\* positions in 0..n-1 in strictly increasing order (the precondition of
\* m_methodD) without reading mask bits at positions >= n, and under fair
\* random draws the rejection loop of getRandomBitMask terminates;
\* getRandomInt(0, n-1) never yields a value outside 0..n-1.
C24_SortedRandomSubReg == [](RandSafe) /\ <>(rand.pc = "done")

\* a call for 2 of 4 positions has returned <<1, 3>> after throwing a draw
\* away
C24_Witness ==
    /\ prog = "rand" /\ rand.pc = "done"
    /\ rand.RegSize = 4 /\ rand.SubRegSize = 2
    /\ rand.rejected
    /\ rand.ret = <<1, 3>>

\* ===================================================================
\* Index safety of the calls with valid arguments (specification SpecSafe)
\* ===================================================================
\* The runs of Spec, with applyMergedPhases among the gate calls, together
\* with the two QFT compositions of SpecQft.

MergedPhases ==
    \E tMax \in 0..(N - 1) :
        GateCall("MP", tMax, tMax, 0, applyMergedPhases(psi, tMax, N))

InitSafe == InitControls \/ InitGates \/ InitQft

NextSafe == Next \/ MergedPhases \/ NextQft

SpecSafe == InitSafe /\ [][NextSafe]_vars

\* the amounts a gate call passes to pow2
applyHadamard_shifts(t, n) == {n - (t + 1), t, t + 1}

applyControlledPhase_shifts(c, t, n) ==
    LET t1 == IF t < c THEN t ELSE c
        t2 == IF c > t THEN c ELSE t
    IN  {n - (t2 + 1), t2 - (t1 + 1), t1, t2 + 1, t1 + 1, t2}

applySwap_shifts(q1, q2, n) ==
    LET t1 == IF q1 > q2 THEN q2 ELSE q1
        t2 == IF q1 > q2 THEN q1 ELSE q2
    IN  {n - (t2 + 1), t2 - (t1 + 1), t1, t2 + 1, t1 + 1, t2}

applyMergedPhases_shifts(tMax, n) == {n - (tMax + 1), tMax, tMax + 1}

Shifts(g, a, b, n) ==
    CASE g = "H"  -> applyHadamard_shifts(a, n)
      [] g = "CP" -> applyControlledPhase_shifts(a, b, n)
      [] g = "SW" -> applySwap_shifts(a, b, n)
      [] g = "MP" -> applyMergedPhases_shifts(a, n)

\* the kernel run of a gate call of a composition
KernelRun(g, n) ==
    CASE g.gate = "H"  -> applyHadamard(g.pre, g.a, n)
      [] g.gate = "CP" -> applyControlledPhase(g.pre, g.a, g.b, g.theta, n)
      [] g.gate = "SW" -> applySwap(g.pre, g.a, g.b, n)
      [] g.gate = "MP" -> applyMergedPhases(g.pre, g.a, n)

\* every access of the run is to an index of the array
RunInRange(run, n) ==
    /\ ~run.oob
    /\ \A m \in 1..Len(run.log) : run.log[m].idx \in 0..(pow2(n) - 1)

\* the gate calls gs have valid arguments and stay inside the array
GatesSafe(gs, n) ==
    \A m \in 1..Len(gs) :
        LET g == gs[m]
        IN  /\ g.a \in 0..(n - 1) /\ g.b \in 0..(n - 1)
            /\ g.gate \in {"CP", "SW"} => g.a # g.b
            /\ \A sh \in Shifts(g.gate, g.a, g.b, n) : sh >= 0
            /\ RunInRange(KernelRun(g, n), n)

\* C25: index safety of valid calls: for every N >= 1, every array index
\* read or written by applyHadamard, applyControlledPhase, applySwap,
\* applyMergedPhases, s_methodA..D and m_methodA/B/D (sorted distinct
\* controls) called with qubit positions in 0..N-1 lies in 0..2^N-1, and
\* throughout applyQFTCircuit and applyQFTAlgorithm every gate call receives
\* qubit positions in 0..N-1, every controlled phase has control different
\* from target, every swap has two different qubits, and no shift amount
\* passed to pow2 is negative.
C25_IndexSafety ==
    /\ prog = "controls" =>
          \A m \in DOMAIN res :
              /\ RunInRange(res[m], N)
              /\ DOMAIN res[m].amps = Indices(N)
    /\ prog = "gates" =>
          \A n \in 1..Len(calls) :
              /\ RunInRange(calls[n].run, N)
              /\ \A sh \in Shifts(calls[n].gate, calls[n].a, calls[n].b, N) : sh >= 0
    /\ prog = "qft" =>
          /\ GatesSafe(qft.c.gates, N)
          /\ GatesSafe(qft.a.gates, N)
          /\ qft.c.pc = "P" => (qft.c.m >= 2 /\ qft.c.tt \in 0..(qft.c.t - 1))
          /\ \A r \in {qft.c, qft.a} :
                /\ r.pc \in {"H", "P"} => r.t \in 1..(N - 1)
                /\ r.pc = "S" => (r.t \in 0..(N - 1) /\ r.t # N - r.t - 1)

\* both compositions of a 4-qubit register have finished: the circuit has
\* made the controlled phase (3, 0) and both have made the swap (1, 2)
C25_Witness ==
    /\ prog = "qft" /\ N = 4
    /\ qft.c.pc = "done" /\ qft.a.pc = "done"
    /\ \E m \in 1..Len(qft.c.gates) :
          /\ qft.c.gates[m].gate = "CP"
          /\ qft.c.gates[m].a = 3 /\ qft.c.gates[m].b = 0
          /\ Len(KernelRun(qft.c.gates[m], N).log) = 8
    /\ qft.a.gates[Len(qft.a.gates)].gate = "SW"
    /\ qft.a.gates[Len(qft.a.gates)].a = 1 /\ qft.a.gates[Len(qft.a.gates)].b = 2

====
